---- MODULE Spec2Model ----
(***************************************************************************)
(* Tiered long-term memory (hab::TieredLTM) of the kernel:                  *)
(*   kernel/include/brain/tiered_memory.hpp, kernel/src/tiered_memory.cpp   *)
(*                                                                          *)
(* Fixed-point conventions.  Scalars are doubles in the source; here        *)
(*   importance, provenance_score, reward, thresholds : hundredths          *)
(*   cosine similarities and retrieval scores          : thousandths        *)
(*   promotion scores: units of 1e-7, demotion scores: units of 1e-6        *)
(*   time points (steady_clock)                        : whole days         *)
(*   latencies                                         : milliseconds       *)
(* The payload fields gw_state, qw_onehot and action are carried through    *)
(* unchanged by every operation and are left out of the item record.        *)
(* 64-bit unsigned hashes are little-endian sequences of 64 bits, because   *)
(* the model checker's integers are 32 bits wide.                           *)
(***************************************************************************)
EXTENDS Integers, Sequences, FiniteSets, TLC

(***************************************************************************)
(* Bounds of the model                                                      *)
(***************************************************************************)
\* the number of steps (calls, and days passing) in a run
MaxSteps == 4
\* the number of calls made by concurrent threads (add() apart: each item once)
MaxCalls == 2

(***************************************************************************)
(* 64-bit unsigned arithmetic on bit sequences                              *)
(***************************************************************************)
W64 == 64

Pow2(n) == 2 ^ n

\* bits of a small non-negative integer (n < 2^16), zero-extended to 64 bits
Bits16(n) ==
    SubSeq([i \in 1..W64 |-> IF i <= 16 THEN (n \div Pow2(i - 1)) % 2 ELSE 0], 1, W64)

\* bits of hi * 2^16 + lo  (a uint32_t given as two 16-bit halves)
Bits32(hi, lo) ==
    SubSeq([i \in 1..W64 |-> IF i <= 16 THEN (lo \div Pow2(i - 1)) % 2
                             ELSE IF i <= 32 THEN (hi \div Pow2(i - 17)) % 2
                             ELSE 0], 1, W64)

\* bits of a uint64_t given as four 16-bit limbs, least significant first
Bits64(l) ==
    SubSeq([i \in 1..W64 |-> (l[((i - 1) \div 16) + 1] \div Pow2((i - 1) % 16)) % 2],
           1, W64)

\* byte k (1 = least significant) of a 64-bit value
Byte(b, k) ==
    LET s == 8 * (k - 1)
    IN b[s + 1] + 2 * b[s + 2] + 4 * b[s + 3] + 8 * b[s + 4]
       + 16 * b[s + 5] + 32 * b[s + 6] + 64 * b[s + 7] + 128 * b[s + 8]

Bytes(b) == <<Byte(b, 1), Byte(b, 2), Byte(b, 3), Byte(b, 4),
              Byte(b, 5), Byte(b, 6), Byte(b, 7), Byte(b, 8)>>

\* the 64-bit value with the given eight bytes
FromBytes(y) ==
    SubSeq([i \in 1..W64 |-> (y[((i - 1) \div 8) + 1] \div Pow2((i - 1) % 8)) % 2], 1, W64)

\* the four 16-bit limbs of a 64-bit value, least significant first
Limbs(b) == <<Byte(b, 1) + 256 * Byte(b, 2), Byte(b, 3) + 256 * Byte(b, 4),
              Byte(b, 5) + 256 * Byte(b, 6), Byte(b, 7) + 256 * Byte(b, 8)>>

\* a ^ b
Xor64(a, b) == SubSeq([i \in 1..W64 |-> (a[i] + b[i]) % 2], 1, W64)

\* a >> n
Shr64(a, n) == SubSeq([i \in 1..W64 |-> IF i + n <= W64 THEN a[i + n] ELSE 0], 1, W64)

RECURSIVE ColumnSum(_, _, _, _)
\* sum of x[i] * y[k - i + 1] for i = 1..n
ColumnSum(x, y, k, n) ==
    IF n = 0 THEN 0 ELSE x[n] * y[k - n + 1] + ColumnSum(x, y, k, n - 1)

RECURSIVE MulCarry(_, _, _, _, _)
\* schoolbook multiplication of byte sequences, column k onwards
MulCarry(x, y, k, carry, out) ==
    IF k > 8 THEN out
    ELSE LET t == ColumnSum(x, y, k, k) + carry
         IN MulCarry(x, y, k + 1, t \div 256, Append(out, t % 256))

\* a * c  (mod 2^64)
Mul64(a, c) == FromBytes(MulCarry(Bytes(a), Bytes(c), 1, 0, <<>>))

\* a < b  (unsigned)
Less64(a, b) == \E i \in 1..W64 : a[i] < b[i] /\ \A j \in (i + 1)..W64 : a[j] = b[j]

Min64(a, b) == IF Less64(b, a) THEN b ELSE a

\* UINT64_MAX
UINT64_MAX == SubSeq([i \in 1..W64 |-> 1], 1, W64)

(***************************************************************************)
(* MinHashDedup  (tiered_memory.cpp 16-134)                                 *)
(***************************************************************************)
\* hash_seeds_[0], hash_seeds_[1]: the first two outputs of
\* std::mt19937_64 rng(42), truncated to uint32_t (1860559574, 3106210472),
\* written as <<high 16 bits, low 16 bits>>
hash_seeds_ == <<Bits32(28389, 58070), Bits32(47397, 680)>>

\* the multiplier 0xff51afd7ed558ccdULL
MixMultiplier == Bits64(<<36045, 60757, 45015, 65361>>)

SeqMin(s) == CHOOSE m \in {s[i] : i \in DOMAIN s} : \A i \in DOMAIN s : m <= s[i]
SeqMax(s) == CHOOSE m \in {s[i] : i \in DOMAIN s} : \A i \in DOMAIN s : m >= s[i]

\* quantization of an embedding to 8-bit values: lines 77-86
Quantize(embedding) ==
    LET min_val == SeqMin(embedding)
        max_val == SeqMax(embedding)
        range   == IF max_val - min_val = 0 THEN 1 ELSE max_val - min_val
        clamp(x) == IF x < 0 THEN 0 ELSE IF x > 255 THEN 255 ELSE x
    IN [i \in DOMAIN embedding |-> clamp(((embedding[i] - min_val) * 255) \div range)]

\* the mixing of one feature (position i counted from 0, value q) with
\* hash function h: lines 95-99
MixHash(i, q, h) ==
    LET h0 == Bits16(i * 31 + q)
        h1 == Xor64(h0, hash_seeds_[h])
        h2 == Xor64(h1, Shr64(h1, 33))
        h3 == Mul64(h2, MixMultiplier)
    IN Xor64(h3, Shr64(h3, 33))

\* min over the first n features of the mixed hash: lines 90-102
RECURSIVE MinHashOver(_, _, _)
MinHashOver(quantized, n, h) ==
    IF n = 0 THEN UINT64_MAX
    ELSE Min64(MinHashOver(quantized, n - 1, h), MixHash(n - 1, quantized[n], h))

\* compute_signature(const Eigen::VectorXd&): the pair of min-hashes, each
\* as four 16-bit limbs
compute_signature(embedding) ==
    IF Len(embedding) = 0 THEN <<Limbs(UINT64_MAX), Limbs(UINT64_MAX)>>
    ELSE LET quantized == Quantize(embedding)
         IN <<Limbs(MinHashOver(quantized, Len(quantized), 1)),
              Limbs(MinHashOver(quantized, Len(quantized), 2))>>

\* variant: only the first slot is compared
jaccard_similarity_FirstSlot(sig1, sig2) ==
    LET matches == Cardinality({i \in 1..1 : sig1[i] = sig2[i]})
    IN (matches * 100) \div 2

\* jaccard_similarity, in hundredths: matches / 2.0
jaccard_similarity(sig1, sig2) ==
    LET matches == Cardinality({i \in 1..2 : sig1[i] = sig2[i]})
    IN (matches * 100) \div 2

\* MinHashDedup::is_duplicate over the vector of existing signatures
dedup_is_duplicate(sig, existing_sigs, threshold) ==
    \E j \in DOMAIN existing_sigs : jaccard_similarity(sig, existing_sigs[j]) >= threshold

(***************************************************************************)
(* Numeric helpers                                                          *)
(***************************************************************************)
RECURSIVE SqrtSearch(_, _, _)
SqrtSearch(n, lo, hi) ==
    IF lo >= hi THEN lo
    ELSE LET mid == (lo + hi + 1) \div 2
         IN IF mid * mid <= n THEN SqrtSearch(n, mid, hi) ELSE SqrtSearch(n, lo, mid - 1)

\* floor of the square root
ISqrt(n) == SqrtSearch(n, 0, 46340)

RECURSIVE DotUpTo(_, _, _)
DotUpTo(a, b, n) == IF n = 0 THEN 0 ELSE a[n] * b[n] + DotUpTo(a, b, n - 1)

Dot(a, b) == DotUpTo(a, b, Len(a))

\* 1000 * e^(-n/2), n = 0, 1, 2, ... (entry n + 1)
ExpNegHalves == <<1000, 606, 367, 223, 135, 82, 49, 30, 18, 11, 6, 4, 2, 1, 0, 0, 0>>

\* 1000 * e^(-n/2) for any n >= 0: below 0.5 beyond the table
ExpNegHalf(n) == IF n < Len(ExpNegHalves) THEN ExpNegHalves[n + 1] ELSE 0

\* 100 * log1p(n), n = 0, 1, 2, 3 (entry n + 1)
Log1p == <<0, 69, 110, 139>>

Max(a, b) == IF a >= b THEN a ELSE b
Min(a, b) == IF a <= b THEN a ELSE b

(***************************************************************************)
(* Configuration (TieredLTMConfig) and construction                         *)
(***************************************************************************)
\* the configurations offered to the constructor
ConfigSpace ==
    [hot_capacity : {0, 1, 2, 3},
     warm_capacity : {2},
     cold_capacity : {1, 2},
     num_hashes : {1, 128},
     similarity_threshold : {95},
     consolidation_threshold : {70},
     half_life_days : {1},
     enable_temporal_decay : {TRUE},
     enable_usage_decay : {TRUE}]

\* variant: the cold capacity is not compared with the warm capacity
ConstructorAccepts_NoColdCheck(config) ==
    /\ ~(config.num_hashes < 2)
    /\ ~(config.hot_capacity < 1)
    /\ ~(config.warm_capacity < config.hot_capacity)

\* MinHashDedup::MinHashDedup and TieredLTM::TieredLTM: the configurations
\* for which construction does not throw std::invalid_argument
ConstructorAccepts(config) ==
    /\ ~(config.num_hashes < 2)
    /\ ~(config.hot_capacity < 1)
    /\ ~(config.warm_capacity < config.hot_capacity)
    /\ ~(config.cold_capacity < config.warm_capacity)

(***************************************************************************)
(* MemoryItem                                                               *)
(***************************************************************************)
\* the items callers pass to add() and consolidate()
ValidInputs ==
    { [source_doc_id |-> "a", embedding |-> <<1, 0>>, importance |-> 80,
       provenance_score |-> 100, reward |-> 50, access_count |-> 0],
      [source_doc_id |-> "b", embedding |-> <<0, 1>>, importance |-> 30,
       provenance_score |-> 100, reward |-> 50, access_count |-> 0],
      [source_doc_id |-> "c", embedding |-> <<1, 1>>, importance |-> 90,
       provenance_score |-> 50, reward |-> 0, access_count |-> 1],
      [source_doc_id |-> "d", embedding |-> <<2, 0>>, importance |-> 80,
       provenance_score |-> 100, reward |-> 50, access_count |-> 0],
      [source_doc_id |-> "a", embedding |-> <<0, 0, 1>>, importance |-> 60,
       provenance_score |-> 100, reward |-> 100, access_count |-> 0] }

InvalidInputs ==
    LET v == CHOOSE i \in ValidInputs : i.embedding = <<1, 0>>
    IN { [v EXCEPT !.embedding = <<>>],
         [v EXCEPT !.importance = 101], [v EXCEPT !.importance = 0 - 1],
         [v EXCEPT !.provenance_score = 101], [v EXCEPT !.provenance_score = 0 - 1],
         [v EXCEPT !.source_doc_id = ""] }

Inputs == ValidInputs \cup InvalidInputs

\* compute_signature is deterministic, so the signatures of the embeddings
\* callers use are computed once
SignatureTable == {<<e, compute_signature(e)>> : e \in {i.embedding : i \in Inputs}}

SignatureOf(embedding) == (CHOOSE p \in SignatureTable : p[1] = embedding)[2]

\* variant: the source_doc_id is not checked
validate_item_NoId(item) ==
    /\ Len(item.embedding) > 0
    /\ item.importance >= 0 /\ item.importance <= 100
    /\ item.provenance_score >= 0 /\ item.provenance_score <= 100

\* TieredLTM::validate_item
validate_item(item) ==
    /\ Len(item.embedding) > 0
    /\ item.importance >= 0 /\ item.importance <= 100
    /\ item.provenance_score >= 0 /\ item.provenance_score <= 100
    /\ item.source_doc_id # ""

\* the item add() stores: lines 253-257
NewItem(item, now) ==
    [source_doc_id |-> item.source_doc_id, embedding |-> item.embedding,
     importance |-> item.importance, provenance_score |-> item.provenance_score,
     reward |-> item.reward, access_count |-> item.access_count,
     tier |-> "hot", timestamp |-> now, last_access |-> now,
     minhash_sig |-> SignatureOf(item.embedding)]

(***************************************************************************)
(* Scoring and search helpers                                               *)
(***************************************************************************)
\* TieredLTM::cosine_similarity, in thousandths
cosine_similarity(a, b) ==
    IF Len(a) # Len(b) \/ Len(a) = 0 THEN 0
    ELSE LET dot == Dot(a, b)
             na2 == Dot(a, a)
             nb2 == Dot(b, b)
         IN IF na2 = 0 \/ nb2 = 0 THEN 0
            ELSE LET den == ISqrt(na2 * nb2 * 1000000)
                     mag == ((IF dot < 0 THEN 0 - dot ELSE dot) * 1000000) \div den
                     c   == Min(mag, 1000)
                 IN IF dot < 0 THEN 0 - c ELSE c

\* variant: without the floor of 1%
compute_decay_multiplier_NoFloor(item, config, now) ==
    LET age_days == now - item.timestamp
        days_since_access == now - item.last_access
        temporal == IF config.enable_temporal_decay
                    THEN 1000 \div (2 ^ (age_days \div config.half_life_days))
                    ELSE 1000
        usage    == IF config.enable_usage_decay
                    THEN ExpNegHalf(days_since_access \div config.half_life_days)
                    ELSE 1000
    IN (temporal * usage) \div 1000

\* TieredLTM::compute_decay_multiplier, in thousandths
compute_decay_multiplier(item, config, now) ==
    LET age_days == now - item.timestamp
        days_since_access == now - item.last_access
        temporal == IF config.enable_temporal_decay
                    THEN 1000 \div (2 ^ (age_days \div config.half_life_days))
                    ELSE 1000
        usage    == IF config.enable_usage_decay
                    THEN ExpNegHalf(days_since_access \div config.half_life_days)
                    ELSE 1000
    IN Max((temporal * usage) \div 1000, 10)

\* TieredLTM::compute_promotion_score with the default promotion_policies
compute_promotion_score(item, now) ==
    LET time_since_access == now - item.last_access
        recency == ExpNegHalf(2 * time_since_access) \div 10
        score   == recency * 4 + item.reward * 3 + item.importance * 3
    IN score * item.provenance_score * (100 + Log1p[item.access_count + 1])

\* TieredLTM::compute_demotion_score with the default demotion_policies
compute_demotion_score(item, config, now) ==
    LET age_days == now - item.timestamp
        score == ((age_days * 100) \div config.half_life_days) * 4
                 + (100 - item.reward) * 3 + (100 - item.importance) * 3
    IN (score * (200 - item.provenance_score) * 1000) \div (100 + Log1p[item.access_count + 1])

(***************************************************************************)
(* State of a TieredLTM object                                              *)
(***************************************************************************)
VARIABLES
    config_,        \* TieredLTMConfig, fixed at construction
    hot_tier_,      \* std::vector<MemoryItem>
    hot_index_,     \* doc_id -> position (positions counted from 1)
    warm_tier_,
    warm_index_,
    cold_tier_,
    cold_index_,
    signatures_,    \* std::vector<std::array<uint64_t, 2>>
    stats_,         \* TieredLTM::Stats
    now,            \* std::chrono::steady_clock::now(), in days
    last,           \* the most recent call: operation, arguments, outcome
    steps,          \* number of steps taken so far
    hot_mutex_,     \* the thread holding hot_mutex_ exclusively, or "free"
    threads,        \* per calling thread: where it is in its call, and its locals
    issued,         \* ids of the items the threads have passed to add()
    admitted,       \* ids of the items for which a thread's add() returned true
    calls           \* number of calls begun by concurrent threads (add() apart, see issued)

vars == <<config_, hot_tier_, hot_index_, warm_tier_, warm_index_, cold_tier_,
          cold_index_, signatures_, stats_, now, last, steps, hot_mutex_, threads,
          issued, admitted, calls>>

\* what belongs to the calling threads
thread_vars == <<hot_mutex_, threads, issued, admitted, calls>>

\* the mutable members as one record
Mem == [hot_tier_ |-> hot_tier_, hot_index_ |-> hot_index_,
        warm_tier_ |-> warm_tier_, warm_index_ |-> warm_index_,
        cold_tier_ |-> cold_tier_, cold_index_ |-> cold_index_,
        signatures_ |-> signatures_, stats_ |-> stats_]

\* the members after a step
MemNext == [hot_tier_ |-> hot_tier_', hot_index_ |-> hot_index_',
            warm_tier_ |-> warm_tier_', warm_index_ |-> warm_index_',
            cold_tier_ |-> cold_tier_', cold_index_ |-> cold_index_',
            signatures_ |-> signatures_', stats_ |-> stats_']

\* Stats{}
ZeroStats ==
    [hot_count |-> 0, warm_count |-> 0, cold_count |-> 0, total_count |-> 0,
     duplicates_blocked |-> 0, promotions |-> 0, demotions |-> 0,
     total_queries |-> 0, avg_hot_latency_ms |-> 0, avg_warm_latency_ms |-> 0]

EmptyIndex == [id \in {} |-> 0]

\* the members right after construction
EmptyMem ==
    [hot_tier_ |-> <<>>, hot_index_ |-> EmptyIndex,
     warm_tier_ |-> <<>>, warm_index_ |-> EmptyIndex,
     cold_tier_ |-> <<>>, cold_index_ |-> EmptyIndex,
     signatures_ |-> <<>>, stats_ |-> ZeroStats]

\* hot_size(), warm_size(), cold_size(), total_size()
hot_size(m) == Len(m.hot_tier_)
warm_size(m) == Len(m.warm_tier_)
cold_size(m) == Len(m.cold_tier_)
total_size(m) == hot_size(m) + warm_size(m) + cold_size(m)

(***************************************************************************)
(* Tier storage helpers                                                     *)
(***************************************************************************)
\* index[id] = pos  (std::unordered_map::operator[])
IndexPut(index, id, pos) ==
    [x \in DOMAIN index \cup {id} |-> IF x = id THEN pos ELSE index[x]]

\* vector::erase(begin() + pos)
EraseAt(tier, pos) == SubSeq(tier, 1, pos - 1) \o SubSeq(tier, pos + 1, Len(tier))

\* variant: every position is off by one
rebuild_index_OffByOne(tier) ==
    [id \in {tier[i].source_doc_id : i \in DOMAIN tier} |->
        1 + CHOOSE i \in DOMAIN tier :
                /\ tier[i].source_doc_id = id
                /\ \A j \in DOMAIN tier : tier[j].source_doc_id = id => j <= i]

\* rebuild_hot_index / rebuild_warm_index: clear, then index[id] = i in
\* position order, so the last position of an id wins
rebuild_index(tier) ==
    [id \in {tier[i].source_doc_id : i \in DOMAIN tier} |->
        CHOOSE i \in DOMAIN tier :
            /\ tier[i].source_doc_id = id
            /\ \A j \in DOMAIN tier : tier[j].source_doc_id = id => j <= i]

\* variant: the first position with the highest promotion score
evict_idx_Highest(tier, t) ==
    CHOOSE i \in DOMAIN tier :
        /\ \A j \in DOMAIN tier :
              compute_promotion_score(tier[i], t) >= compute_promotion_score(tier[j], t)
        /\ \A j \in 1..(i - 1) :
              compute_promotion_score(tier[j], t) < compute_promotion_score(tier[i], t)

\* the position evict_from_hot chooses: the first one with the lowest
\* promotion score (lines 748-757)
evict_idx(tier, t) ==
    CHOOSE i \in DOMAIN tier :
        /\ \A j \in DOMAIN tier :
              compute_promotion_score(tier[i], t) <= compute_promotion_score(tier[j], t)
        /\ \A j \in 1..(i - 1) :
              compute_promotion_score(tier[j], t) > compute_promotion_score(tier[i], t)

\* evict_from_hot: the members afterwards (caller checked hot is not empty)
evict_from_hot(m, t) ==
    LET idx == evict_idx(m.hot_tier_, t)
        rest == EraseAt(m.hot_tier_, idx)
    IN [m EXCEPT !.hot_tier_ = rest, !.hot_index_ = rebuild_index(rest)]

\* variant: the evicted item comes back with its access count reset
evicted_item_Reset(m, t) ==
    [m.hot_tier_[evict_idx(m.hot_tier_, t)] EXCEPT !.access_count = 0]

\* the item evict_from_hot returns
evicted_item(m, t) == m.hot_tier_[evict_idx(m.hot_tier_, t)]

\* variant: the evicted item is counted but not stored
WarmInsertEvicted_Lost(m, evicted) ==
    [m EXCEPT !.stats_.warm_count = @ + 1, !.stats_.demotions = @ + 1]

\* add(), lines 266-273: the evicted item goes to the end of warm
WarmInsertEvicted(m, evicted) ==
    LET it == [evicted EXCEPT !.tier = "warm"]
        w  == Append(m.warm_tier_, it)
    IN [m EXCEPT !.warm_tier_ = w,
                 !.warm_index_ = IndexPut(m.warm_index_, it.source_doc_id, Len(w)),
                 !.stats_.warm_count = @ + 1,
                 !.stats_.demotions = @ + 1]

\* variant: the new item overwrites the last slot of a non-empty hot tier
HotInsertNew_Overwrite(m, new_item) ==
    LET h == IF Len(m.hot_tier_) = 0 THEN <<new_item>>
             ELSE [m.hot_tier_ EXCEPT ![Len(m.hot_tier_)] = new_item]
    IN [m EXCEPT !.hot_tier_ = h, !.hot_index_ = rebuild_index(h)]

\* add(), lines 279-280
HotInsertNew(m, new_item) ==
    LET h == Append(m.hot_tier_, new_item)
    IN [m EXCEPT !.hot_tier_ = h,
                 !.hot_index_ = IndexPut(m.hot_index_, new_item.source_doc_id, Len(h))]

\* variant: the signature of the admitted item is not remembered
RecordAdmission_NoSignature(m, new_item) ==
    [m EXCEPT !.stats_.hot_count = @ + 1,
              !.stats_.total_count = @ + 1]

\* add(), lines 283-289
RecordAdmission(m, new_item) ==
    [m EXCEPT !.signatures_ = Append(@, new_item.minhash_sig),
              !.stats_.hot_count = @ + 1,
              !.stats_.total_count = @ + 1]

\* TieredLTM::is_duplicate
is_duplicate(m, config, item) ==
    dedup_is_duplicate(SignatureOf(item.embedding), m.signatures_,
                       config.similarity_threshold)

\* variant: eviction only once hot is over capacity
EvictIfFull_Late(m, config, t) ==
    IF Len(m.hot_tier_) > config.hot_capacity /\ Len(m.hot_tier_) > 0
    THEN WarmInsertEvicted(evict_from_hot(m, t), evicted_item(m, t))
    ELSE m

\* add(), lines 260-262: hot is at capacity and evict_from_hot() has a value
NeedsEviction(m, config) ==
    Len(m.hot_tier_) >= config.hot_capacity /\ Len(m.hot_tier_) > 0

\* add(), lines 259-277: make room in hot when it is at capacity
EvictIfFull(m, config, t) ==
    IF NeedsEviction(m, config)
    THEN WarmInsertEvicted(evict_from_hot(m, t), evicted_item(m, t))
    ELSE m

\* variant: the rejected duplicate is not counted
BlockDuplicate_Uncounted(m) == m

\* add(), line 245
BlockDuplicate(m) == [m EXCEPT !.stats_.duplicates_blocked = @ + 1]

\* TieredLTM::add run without interruption: the return value and the
\* members afterwards
add(m, config, item, t) ==
    IF ~validate_item(item) THEN [ret |-> FALSE, mem |-> m]
    ELSE IF is_duplicate(m, config, item)
    THEN [ret |-> FALSE, mem |-> BlockDuplicate(m)]
    ELSE LET new_item == NewItem(item, t)
         IN [ret |-> TRUE,
             mem |-> RecordAdmission(HotInsertNew(EvictIfFull(m, config, t), new_item),
                                     new_item)]

(***************************************************************************)
(* retrieve                                                                 *)
(***************************************************************************)
\* what std::partial_sort / std::sort with the comparator a.second > b.second
\* may leave in the first min(k, n) places: any choice of positions in
\* non-increasing order of score that no left-out position beats (the order
\* among equal scores is unspecified)
TopK(scores, k) ==
    LET n == Len(scores)
        r == Min(k, n)
    IN {s \in [1..r -> 1..n] :
           /\ \A i, j \in 1..r : i # j => s[i] # s[j]
           /\ \A i \in 1..(r - 1) : scores[s[i]] >= scores[s[i + 1]]
           /\ \A p \in 1..n : (\A i \in 1..r : s[i] # p)
                                 => \A i \in 1..r : scores[p] <= scores[s[i]]}

\* the similarities hnsw_search computes over the hot tier
hnsw_scores(m, query) ==
    [i \in DOMAIN m.hot_tier_ |-> cosine_similarity(query, m.hot_tier_[i].embedding)]

\* the similarities ivf_pq_search computes over the warm tier: sim *= 0.97
ivf_pq_scores(m, query) ==
    [i \in DOMAIN m.warm_tier_ |->
        (cosine_similarity(query, m.warm_tier_[i].embedding) * 97) \div 100]

\* record_access
record_access(item, t) ==
    [item EXCEPT !.access_count = @ + 1, !.last_access = t]

\* variant: k = 0 is let through
RetrieveArgsInvalid_ZeroK(query, k) == Len(query) = 0 \/ k < 0

\* the argument check of retrieve(): lines 295-300
RetrieveArgsInvalid(query, k) == Len(query) = 0 \/ k < 1

\* variant: the warm tier is asked for k results whatever hot found
WarmShortfall_Full(k, found) == k

\* how many results retrieve() asks the warm tier for: line 326
WarmShortfall(k, found) == k - found

\* the running average of line 355, kept in microseconds
RunningAverage(avg, total, latency_ms) ==
    (avg * (total - 1) + latency_ms * 1000) \div total

\* retrieve(), lines 306-320: what the hot search contributes
HotPart(m, query, t, hot_order) ==
    LET hs == hnsw_scores(m, query)
    IN [items  |-> [i \in DOMAIN hot_order |-> record_access(m.hot_tier_[hot_order[i]], t)],
        scores |-> [i \in DOMAIN hot_order |-> hs[hot_order[i]]],
        tiers  |-> [i \in DOMAIN hot_order |-> "hot"]]

\* retrieve(), lines 323-338: what the warm search contributes
WarmPart(m, query, t, warm_order) ==
    LET ws == ivf_pq_scores(m, query)
    IN [items  |-> [i \in DOMAIN warm_order |->
                       record_access(m.warm_tier_[warm_order[i]], t)],
        scores |-> [i \in DOMAIN warm_order |-> ws[warm_order[i]]],
        tiers  |-> [i \in DOMAIN warm_order |-> "warm"]]

\* retrieve(), lines 341-343: the lists after both searches, scores
\* multiplied by the provenance score
Rerank(hot_part, warm_part) ==
    LET items  == hot_part.items \o warm_part.items
        scores == hot_part.scores \o warm_part.scores
    IN [items  |-> items,
        scores |-> [i \in DOMAIN scores |->
                       (scores[i] * items[i].provenance_score) \div 100],
        tiers  |-> hot_part.tiers \o warm_part.tiers]

\* retrieve(), lines 302-346: the result for one outcome of the two searches
\* (hot_order, warm_order: the positions the searches returned) when both
\* searches see the same members
RetrieveResult(m, query, k, t, hot_order, warm_order, latency_ms) ==
    LET r == Rerank(HotPart(m, query, t, hot_order), WarmPart(m, query, t, warm_order))
    IN [items |-> r.items, scores |-> r.scores, tiers |-> r.tiers,
        latency_ms |-> latency_ms]

\* variant: the hot search returns one position less
HotOrders_OneShort(m, query, k) == TopK(hnsw_scores(m, query), k - 1)

\* the positions the hot search may return
HotOrders(m, query, k) == TopK(hnsw_scores(m, query), k)

\* the positions the warm search may return after the hot search found
\* `found` items: lines 323-326
WarmOrders(m, query, k, found) ==
    IF found < k /\ Len(m.warm_tier_) > 0
    THEN TopK(ivf_pq_scores(m, query), WarmShortfall(k, found))
    ELSE {<<>>}

\* variant: the query is counted by fetch_add and once more under the mutex
RecordQuery_Twice(m, latency_ms) ==
    LET total == m.stats_.total_queries + 2
    IN [m EXCEPT !.stats_.total_queries = total,
                 !.stats_.avg_hot_latency_ms =
                     IF total > 0 THEN RunningAverage(@, total, latency_ms) ELSE @]

\* retrieve(), lines 349-357
RecordQuery(m, latency_ms) ==
    LET total == m.stats_.total_queries + 1
    IN [m EXCEPT !.stats_.total_queries = total,
                 !.stats_.avg_hot_latency_ms =
                     IF total > 0 THEN RunningAverage(@, total, latency_ms) ELSE @]

(***************************************************************************)
(* consolidate, promote, demote, maintenance, clear                         *)
(***************************************************************************)
\* variant: the threshold itself is not enough
consolidate_Strict(m, config, item, importance, t) ==
    IF importance > config.consolidation_threshold
    THEN add(m, config, [item EXCEPT !.importance = importance], t).mem
    ELSE m

\* consolidate(): the members afterwards
consolidate(m, config, item, importance, t) ==
    IF importance >= config.consolidation_threshold
    THEN add(m, config, [item EXCEPT !.importance = importance], t).mem
    ELSE m

\* promote(): does the lookup of lines 376-377 succeed
InWarm(m, item_id) ==
    item_id \in DOMAIN m.warm_index_ /\ m.warm_index_[item_id] <= Len(m.warm_tier_)

\* variant: the item is copied, not removed
PromoteRemove_Keep(m, item_id) ==
    [m EXCEPT !.stats_.warm_count = @ - 1]

\* promote(), lines 378-384: removal from warm
PromoteRemove(m, item_id) ==
    LET rest == EraseAt(m.warm_tier_, m.warm_index_[item_id])
    IN [m EXCEPT !.warm_tier_ = rest,
                 !.warm_index_ = rebuild_index(rest),
                 !.stats_.warm_count = @ - 1]

\* variant: the promotion is not counted
PromoteInsert_Uncounted(m, item) ==
    LET it == [item EXCEPT !.tier = "hot"]
        h  == Append(m.hot_tier_, it)
    IN [m EXCEPT !.hot_tier_ = h,
                 !.hot_index_ = IndexPut(m.hot_index_, it.source_doc_id, Len(h)),
                 !.stats_.hot_count = @ + 1]

\* variant: the tier field is not updated
PromoteInsert_KeepTier(m, item) ==
    LET h == Append(m.hot_tier_, item)
    IN [m EXCEPT !.hot_tier_ = h,
                 !.hot_index_ = IndexPut(m.hot_index_, item.source_doc_id, Len(h)),
                 !.stats_.hot_count = @ + 1,
                 !.stats_.promotions = @ + 1]

\* promote(), lines 388-393: insertion into hot
PromoteInsert(m, item) ==
    LET it == [item EXCEPT !.tier = "hot"]
        h  == Append(m.hot_tier_, it)
    IN [m EXCEPT !.hot_tier_ = h,
                 !.hot_index_ = IndexPut(m.hot_index_, it.source_doc_id, Len(h)),
                 !.stats_.hot_count = @ + 1,
                 !.stats_.promotions = @ + 1]

\* variant: the tier names are not looked at
promote_AnyPair(m, item_id, from_tier, to_tier) ==
    IF InWarm(m, item_id)
    THEN PromoteInsert(PromoteRemove(m, item_id), m.warm_tier_[m.warm_index_[item_id]])
    ELSE m

\* promote() run without interruption
promote(m, item_id, from_tier, to_tier) ==
    IF from_tier = "warm" /\ to_tier = "hot" /\ InWarm(m, item_id)
    THEN PromoteInsert(PromoteRemove(m, item_id), m.warm_tier_[m.warm_index_[item_id]])
    ELSE m

\* demote(): does the lookup of lines 404-405 succeed
InHot(m, item_id) ==
    item_id \in DOMAIN m.hot_index_ /\ m.hot_index_[item_id] <= Len(m.hot_tier_)

\* demote(), lines 406-412: removal from hot
DemoteRemove(m, item_id) ==
    LET rest == EraseAt(m.hot_tier_, m.hot_index_[item_id])
    IN [m EXCEPT !.hot_tier_ = rest,
                 !.hot_index_ = rebuild_index(rest),
                 !.stats_.hot_count = @ - 1]

\* variant: the demoted item is counted but not stored
DemoteInsert_Lost(m, item) ==
    [m EXCEPT !.stats_.warm_count = @ + 1, !.stats_.demotions = @ + 1]

\* demote(), lines 416-421: insertion into warm
DemoteInsert(m, item) ==
    LET it == [item EXCEPT !.tier = "warm"]
        w  == Append(m.warm_tier_, it)
    IN [m EXCEPT !.warm_tier_ = w,
                 !.warm_index_ = IndexPut(m.warm_index_, it.source_doc_id, Len(w)),
                 !.stats_.warm_count = @ + 1,
                 !.stats_.demotions = @ + 1]

\* variant: a warm item can be demoted to cold
demote_ToCold(m, item_id, from_tier, to_tier) ==
    IF from_tier = "hot" /\ to_tier = "warm" /\ InHot(m, item_id)
    THEN DemoteInsert(DemoteRemove(m, item_id), m.hot_tier_[m.hot_index_[item_id]])
    ELSE IF from_tier = "warm" /\ to_tier = "cold" /\ InWarm(m, item_id)
    THEN LET it == [m.warm_tier_[m.warm_index_[item_id]] EXCEPT !.tier = "cold"]
             rest == EraseAt(m.warm_tier_, m.warm_index_[item_id])
             c == Append(m.cold_tier_, it)
         IN [m EXCEPT !.warm_tier_ = rest,
                      !.warm_index_ = rebuild_index(rest),
                      !.cold_tier_ = c,
                      !.cold_index_ = IndexPut(m.cold_index_, item_id, Len(c)),
                      !.stats_.warm_count = @ - 1,
                      !.stats_.cold_count = @ + 1,
                      !.stats_.demotions = @ + 1]
    ELSE m

\* demote() run without interruption
demote(m, item_id, from_tier, to_tier) ==
    IF from_tier = "hot" /\ to_tier = "warm" /\ InHot(m, item_id)
    THEN DemoteInsert(DemoteRemove(m, item_id), m.hot_tier_[m.hot_index_[item_id]])
    ELSE m

\* the decay of one tier: importance *= decay_mult
DecayTier(tier, config, t) ==
    [i \in DOMAIN tier |->
        [tier[i] EXCEPT !.importance =
            (@ * compute_decay_multiplier(tier[i], config, t)) \div 1000]]

\* apply_decay()
apply_decay(m, config, t) ==
    IF ~config.enable_temporal_decay /\ ~config.enable_usage_decay THEN m
    ELSE [m EXCEPT !.hot_tier_ = DecayTier(@, config, t),
                   !.warm_tier_ = DecayTier(@, config, t)]

\* the promotion scores check_promotions() collects: lines 461-466
PromotionScores(m, t) ==
    [i \in DOMAIN m.warm_tier_ |-> compute_promotion_score(m.warm_tier_[i], t)]

\* the demotion scores check_demotions() collects: lines 487-492
DemotionScores(m, config, t) ==
    [i \in DOMAIN m.hot_tier_ |-> compute_demotion_score(m.hot_tier_[i], config, t)]

\* what std::sort may make of the candidates: positions by descending score
SortedOrders(scores) == TopK(scores, Len(scores))

\* check_promotions(), line 475
num_to_promote(config, current_hot_size, num_candidates) ==
    Min(config.hot_capacity - current_hot_size, num_candidates)

\* check_demotions(), lines 500-502
num_to_demote(config, hot_size_val, num_candidates) ==
    LET over_capacity == hot_size_val - config.hot_capacity
    IN IF over_capacity > 0 THEN Min(over_capacity, num_candidates) ELSE 0

RECURSIVE PromoteEach(_, _, _, _)
\* the loop of lines 477-479 from candidate i on
PromoteEach(m, ids, i, n) ==
    IF i > n THEN m ELSE PromoteEach(promote(m, ids[i], "warm", "hot"), ids, i + 1, n)

RECURSIVE DemoteEach(_, _, _, _)
\* the loop of lines 503-505 from candidate i on
DemoteEach(m, ids, i, n) ==
    IF i > n THEN m ELSE DemoteEach(demote(m, ids[i], "hot", "warm"), ids, i + 1, n)

\* check_promotions() for one outcome of the sort
check_promotions(m, config, order) ==
    LET ids == [i \in DOMAIN order |-> m.warm_tier_[order[i]].source_doc_id]
    IN PromoteEach(m, ids, 1, num_to_promote(config, hot_size(m), Len(ids)))

\* check_demotions() for one outcome of the sort
check_demotions(m, config, order) ==
    LET ids == [i \in DOMAIN order |-> m.hot_tier_[order[i]].source_doc_id]
    IN DemoteEach(m, ids, 1, num_to_demote(config, hot_size(m), Len(ids)))

\* variant: the statistics survive
clear_KeepStats(m) == [EmptyMem EXCEPT !.stats_ = m.stats_]

\* clear()
clear(m) == EmptyMem

(***************************************************************************)
(* Sequential callers: every call runs to completion before the next        *)
(***************************************************************************)
\* the threads that call into the object concurrently: two call add(), one
\* calls maintenance(), one calls retrieve()
Adders == {"t1", "t2"}
Threads == Adders \cup {"m", "r"}

\* a thread that is not inside a call
Idle == [pc |-> "idle"]

SetMem(m) ==
    /\ hot_tier_' = m.hot_tier_
    /\ hot_index_' = m.hot_index_
    /\ warm_tier_' = m.warm_tier_
    /\ warm_index_' = m.warm_index_
    /\ cold_tier_' = m.cold_tier_
    /\ cold_index_' = m.cold_index_
    /\ signatures_' = m.signatures_
    /\ stats_' = m.stats_

Init ==
    /\ config_ \in {c \in ConfigSpace : ConstructorAccepts(c)}
    /\ hot_tier_ = <<>> /\ hot_index_ = EmptyIndex
    /\ warm_tier_ = <<>> /\ warm_index_ = EmptyIndex
    /\ cold_tier_ = <<>> /\ cold_index_ = EmptyIndex
    /\ signatures_ = <<>>
    /\ stats_ = ZeroStats
    /\ now = 0
    /\ last = [op |-> "construct"]
    /\ steps = 0
    /\ hot_mutex_ = "free"
    /\ threads = [t \in Threads |-> Idle]
    /\ issued = {}
    /\ admitted = {}
    /\ calls = 0

\* time passes between calls
Tick ==
    /\ steps < MaxSteps
    /\ now' = now + 1
    /\ steps' = steps + 1
    /\ last' = [op |-> "tick"]
    /\ UNCHANGED <<config_, hot_tier_, hot_index_, warm_tier_, warm_index_, cold_tier_,
                   cold_index_, signatures_, stats_>>
    /\ UNCHANGED thread_vars

\* a call of add(item)
AddCall ==
    /\ steps < MaxSteps
    /\ \E item \in Inputs :
          LET r == add(Mem, config_, item, now)
          IN /\ SetMem(r.mem)
             /\ last' = [op |-> "add", item |-> item, ret |-> r.ret]
    /\ steps' = steps + 1
    /\ UNCHANGED <<config_, now>>
    /\ UNCHANGED thread_vars

\* the arguments callers pass to retrieve()
RetrieveArgs ==
    { <<<<>>, 1>>, <<<<1, 0>>, 0 - 1>>, <<<<1, 0>>, 0>>,
      <<<<1, 0>>, 1>>, <<<<1, 0>>, 2>>, <<<<1, 1>>, 3>> }

\* the latencies a retrieve() may measure
Latencies == {1, 3}

\* a call of retrieve(query, k)
RetrieveCall ==
    /\ steps < MaxSteps
    /\ \E args \in RetrieveArgs :
          LET query == args[1]
              k     == args[2]
          IN
          IF RetrieveArgsInvalid(query, k)
          THEN /\ last' = [op |-> "retrieve", query |-> query, k |-> k,
                           ret |-> "InvalidArgument"]
               /\ UNCHANGED <<hot_tier_, hot_index_, warm_tier_, warm_index_, cold_tier_,
                              cold_index_, signatures_, stats_>>
          ELSE \E hot_order \in HotOrders(Mem, query, k), latency_ms \in Latencies :
                  \E warm_order \in WarmOrders(Mem, query, k, Len(hot_order)) :
                     /\ SetMem(RecordQuery(Mem, latency_ms))
                     /\ last' = [op |-> "retrieve", query |-> query, k |-> k,
                                 ret |-> "ok",
                                 result |-> RetrieveResult(Mem, query, k, now, hot_order,
                                                           warm_order, latency_ms)]
    /\ steps' = steps + 1
    /\ UNCHANGED <<config_, now>>
    /\ UNCHANGED thread_vars

\* the importances callers pass to consolidate()
Importances == {50, 70, 120}

\* the items callers pass to consolidate()
ConsolidateInputs ==
    LET v == CHOOSE i \in ValidInputs : i.source_doc_id = "b"
    IN {v, [v EXCEPT !.embedding = <<>>]}

\* a call of consolidate(item, importance)
ConsolidateCall ==
    /\ steps < MaxSteps
    /\ \E item \in ConsolidateInputs, importance \in Importances :
          /\ SetMem(consolidate(Mem, config_, item, importance, now))
          /\ last' = [op |-> "consolidate", item |-> item, importance |-> importance]
    /\ steps' = steps + 1
    /\ UNCHANGED <<config_, now>>
    /\ UNCHANGED thread_vars

\* the arguments callers pass to promote() and demote()
ItemIds == {"a", "b", "c", "x"}
TierPairs == {<<"warm", "hot">>, <<"hot", "warm">>}

\* a call of promote(item_id, from_tier, to_tier)
PromoteCall ==
    /\ steps < MaxSteps
    /\ \E item_id \in ItemIds, p \in TierPairs :
          /\ SetMem(promote(Mem, item_id, p[1], p[2]))
          /\ last' = [op |-> "promote", item_id |-> item_id, from_tier |-> p[1],
                      to_tier |-> p[2]]
    /\ steps' = steps + 1
    /\ UNCHANGED <<config_, now>>
    /\ UNCHANGED thread_vars

\* a call of demote(item_id, from_tier, to_tier)
DemoteCall ==
    /\ steps < MaxSteps
    /\ \E item_id \in ItemIds, p \in TierPairs :
          /\ SetMem(demote(Mem, item_id, p[1], p[2]))
          /\ last' = [op |-> "demote", item_id |-> item_id, from_tier |-> p[1],
                      to_tier |-> p[2]]
    /\ steps' = steps + 1
    /\ UNCHANGED <<config_, now>>
    /\ UNCHANGED thread_vars

\* variant: the decay comes after the promotions and demotions
maintenance_DecayLast(m, config, t) ==
    UNION { { apply_decay(check_demotions(m2, config, d_order), config, t) :
                d_order \in SortedOrders(DemotionScores(m2, config, t)) } :
            m2 \in { check_promotions(m, config, p_order) :
                       p_order \in SortedOrders(PromotionScores(m, t)) } }

\* maintenance(): apply_decay(); check_promotions(); check_demotions();
\* the members afterwards, one for every outcome of the two sorts
maintenance(m, config, t) ==
    LET m1 == apply_decay(m, config, t)
    IN UNION { { check_demotions(m2, config, d_order) :
                   d_order \in SortedOrders(DemotionScores(m2, config, t)) } :
               m2 \in { check_promotions(m1, config, p_order) :
                          p_order \in SortedOrders(PromotionScores(m1, t)) } }

\* a call of maintenance()
MaintenanceCall ==
    /\ steps < MaxSteps
    /\ \E m \in maintenance(Mem, config_, now) : SetMem(m)
    /\ last' = [op |-> "maintenance"]
    /\ steps' = steps + 1
    /\ UNCHANGED <<config_, now>>
    /\ UNCHANGED thread_vars

\* a call of clear()
ClearCall ==
    /\ steps < MaxSteps
    /\ SetMem(clear(Mem))
    /\ last' = [op |-> "clear"]
    /\ steps' = steps + 1
    /\ UNCHANGED <<config_, now>>
    /\ UNCHANGED thread_vars

\* a call of get_stats()
GetStatsCall ==
    /\ steps < MaxSteps
    /\ last' = [op |-> "get_stats", ret |-> stats_, instants |-> {stats_}]
    /\ steps' = steps + 1
    /\ UNCHANGED <<config_, hot_tier_, hot_index_, warm_tier_, warm_index_, cold_tier_,
                   cold_index_, signatures_, stats_, now>>
    /\ UNCHANGED thread_vars

Next ==
    \/ AddCall
    \/ RetrieveCall
    \/ ConsolidateCall
    \/ PromoteCall
    \/ DemoteCall
    \/ MaintenanceCall
    \/ ClearCall
    \/ GetStatsCall
    \/ Tick

\* one caller at a time, any operations
Spec == Init /\ [][Next]_vars

\* the numbers of days a caller may let pass at once
SleepDays == {4}

\* several days pass between calls
Sleep ==
    /\ steps < MaxSteps
    /\ \E d \in SleepDays : now' = now + d
    /\ steps' = steps + 1
    /\ last' = [op |-> "tick"]
    /\ UNCHANGED <<config_, hot_tier_, hot_index_, warm_tier_, warm_index_, cold_tier_,
                   cold_index_, signatures_, stats_>>
    /\ UNCHANGED thread_vars

\* a call of apply_decay()
ApplyDecayCall ==
    /\ steps < MaxSteps
    /\ SetMem(apply_decay(Mem, config_, now))
    /\ last' = [op |-> "apply_decay"]
    /\ steps' = steps + 1
    /\ UNCHANGED <<config_, now>>
    /\ UNCHANGED thread_vars

NextDecay == AddCall \/ ApplyDecayCall \/ MaintenanceCall \/ Tick \/ Sleep

\* a cache that receives add(), apply_decay() and maintenance() calls days
\* apart
SpecDecay == Init /\ [][NextDecay]_vars

\* the number of days that pass in a run of SpecMaintenance
MaxDays == 1

\* a day passes between two calls
Day ==
    /\ now < MaxDays
    /\ now' = now + 1
    /\ last' = [op |-> "tick"]
    /\ UNCHANGED <<config_, hot_tier_, hot_index_, warm_tier_, warm_index_, cold_tier_,
                   cold_index_, signatures_, stats_, steps>>
    /\ UNCHANGED thread_vars

NextMaintenance == AddCall \/ DemoteCall \/ MaintenanceCall \/ Day

\* a cache that receives add(), demote() and maintenance() calls while
\* days pass
SpecMaintenance == Init /\ [][NextMaintenance]_vars

\* no TieredLTM object exists (yet)
NoObject == [absent |-> TRUE]

\* before a constructor call
InitConstruct ==
    /\ config_ = NoObject
    /\ hot_tier_ = <<>> /\ hot_index_ = EmptyIndex
    /\ warm_tier_ = <<>> /\ warm_index_ = EmptyIndex
    /\ cold_tier_ = <<>> /\ cold_index_ = EmptyIndex
    /\ signatures_ = <<>>
    /\ stats_ = ZeroStats
    /\ now = 0
    /\ last = [op |-> "none"]
    /\ steps = 0
    /\ hot_mutex_ = "free"
    /\ threads = [t \in Threads |-> Idle]
    /\ issued = {}
    /\ admitted = {}
    /\ calls = 0

\* TieredLTM::TieredLTM(config): std::invalid_argument is thrown and no
\* object comes into being, or the object is constructed with empty tiers
Construct ==
    /\ config_ = NoObject
    /\ \E config \in ConfigSpace :
          IF ConstructorAccepts(config)
          THEN /\ config_' = config
               /\ last' = [op |-> "TieredLTM", config |-> config, ret |-> "ok"]
          ELSE /\ config_' = NoObject
               /\ last' = [op |-> "TieredLTM", config |-> config, ret |-> "InvalidArgument"]
    /\ SetMem(EmptyMem)
    /\ UNCHANGED <<now, steps>>
    /\ UNCHANGED thread_vars

\* add() on the constructed object
ConstructedAdd == config_ # NoObject /\ AddCall

NextConstruct == Construct \/ ConstructedAdd

\* construction attempts, and add() calls on the object once it exists
SpecConstruct == InitConstruct /\ [][NextConstruct]_vars

\* a call of check_promotions()
CheckPromotionsCall ==
    /\ steps < MaxSteps
    /\ \E order \in SortedOrders(PromotionScores(Mem, now)) :
          SetMem(check_promotions(Mem, config_, order))
    /\ last' = [op |-> "check_promotions"]
    /\ steps' = steps + 1
    /\ UNCHANGED <<config_, now>>
    /\ UNCHANGED thread_vars

\* a call of check_demotions()
CheckDemotionsCall ==
    /\ steps < MaxSteps
    /\ \E order \in SortedOrders(DemotionScores(Mem, config_, now)) :
          SetMem(check_demotions(Mem, config_, order))
    /\ last' = [op |-> "check_demotions"]
    /\ steps' = steps + 1
    /\ UNCHANGED <<config_, now>>
    /\ UNCHANGED thread_vars

NextRebalance ==
    \/ AddCall
    \/ PromoteCall
    \/ DemoteCall
    \/ CheckPromotionsCall
    \/ CheckDemotionsCall

\* a cache that receives add(), promote(), demote(), check_promotions() and
\* check_demotions() calls, one at a time
SpecRebalance == Init /\ [][NextRebalance]_vars

NextAdd == AddCall \/ Tick

\* a cache that only ever receives add() calls
SpecAdd == Init /\ [][NextAdd]_vars

(***************************************************************************)
(* Concurrent callers.  A step of a thread runs from one lock acquisition   *)
(* up to the next one.  warm_mutex_, dedup_mutex_ and stats_mutex_ are       *)
(* always released again before the holder reaches another acquisition, so  *)
(* their critical sections are single steps; hot_mutex_ is held by add()     *)
(* while it waits for dedup_mutex_ (lines 275-291), so it has an owner.      *)
(* A concurrent run is short against the unit of time (a day): `now` does    *)
(* not advance during it.                                                    *)
(***************************************************************************)
\* the items the threads pass to add(), each at most once: "a", "b", "c"
ThreadItems == {i \in ValidInputs : i.embedding \in {<<1, 0>>, <<0, 1>>, <<1, 1>>}}

\* the (query, k) pairs the retrieving thread passes
ThreadRetrieveArgs == {a \in RetrieveArgs : ~RetrieveArgsInvalid(a[1], a[2])}

\* no call returned in this step
NoReturn == [op |-> "none"]

\* thread t returns from its call
Return(t, outcome) ==
    /\ threads' = [threads EXCEPT ![t] = Idle]
    /\ last' = outcome

\* thread t goes on inside its call
Goto(t, locals) ==
    /\ threads' = [threads EXCEPT ![t] = locals]
    /\ last' = NoReturn

\* add(), lines 235-248: entry, validation and the duplicate check under
\* dedup_mutex_
AddBegin(t) ==
    /\ threads[t].pc = "idle"
    /\ \E item \in ThreadItems :
          /\ item.source_doc_id \notin issued
          /\ issued' = issued \cup {item.source_doc_id}
          /\ IF ~validate_item(item)
             THEN /\ Return(t, [op |-> "add", item |-> item, ret |-> FALSE])
                  /\ SetMem(Mem)
             ELSE IF is_duplicate(Mem, config_, item)
             THEN /\ Return(t, [op |-> "add", item |-> item, ret |-> FALSE])
                  /\ SetMem(BlockDuplicate(Mem))
             ELSE /\ Goto(t, [pc |-> "add_lock_hot", item |-> item])
                  /\ SetMem(Mem)
    /\ UNCHANGED <<config_, now, steps, hot_mutex_, admitted, calls>>

\* add(), lines 251-264 or 251-280: hot_mutex_ is taken, the item is built;
\* at capacity an item is evicted and hot_mutex_ released, otherwise the
\* new item is pushed and hot_mutex_ kept
AddLockHot(t) ==
    /\ threads[t].pc = "add_lock_hot"
    /\ hot_mutex_ = "free"
    /\ LET item == threads[t].item
           new_item == NewItem(item, now)
       IN IF NeedsEviction(Mem, config_)
          THEN /\ SetMem(evict_from_hot(Mem, now))
               /\ Goto(t, [pc |-> "add_warm", item |-> item, new_item |-> new_item,
                           evicted |-> evicted_item(Mem, now)])
               /\ hot_mutex_' = "free"
          ELSE /\ SetMem(HotInsertNew(Mem, new_item))
               /\ Goto(t, [pc |-> "add_signature", item |-> item, new_item |-> new_item])
               /\ hot_mutex_' = t
    /\ UNCHANGED <<config_, now, steps, issued, admitted, calls>>

\* add(), lines 266-273: the evicted item is pushed to warm under warm_mutex_
AddWarm(t) ==
    /\ threads[t].pc = "add_warm"
    /\ SetMem(WarmInsertEvicted(Mem, threads[t].evicted))
    /\ Goto(t, [pc |-> "add_relock_hot", item |-> threads[t].item,
                new_item |-> threads[t].new_item])
    /\ UNCHANGED <<config_, now, steps, hot_mutex_, issued, admitted, calls>>

\* add(), lines 275-280: hot_mutex_ is taken again and the new item pushed
AddRelockHot(t) ==
    /\ threads[t].pc = "add_relock_hot"
    /\ hot_mutex_ = "free"
    /\ SetMem(HotInsertNew(Mem, threads[t].new_item))
    /\ Goto(t, [pc |-> "add_signature", item |-> threads[t].item,
                new_item |-> threads[t].new_item])
    /\ hot_mutex_' = t
    /\ UNCHANGED <<config_, now, steps, issued, admitted, calls>>

\* add(), lines 283-291: the signature is pushed under dedup_mutex_, the
\* counters are incremented, hot_mutex_ is released, add() returns true
AddSignature(t) ==
    /\ threads[t].pc = "add_signature"
    /\ hot_mutex_ = t
    /\ SetMem(RecordAdmission(Mem, threads[t].new_item))
    /\ hot_mutex_' = "free"
    /\ admitted' = admitted \cup {threads[t].item.source_doc_id}
    /\ Return(t, [op |-> "add", item |-> threads[t].item, ret |-> TRUE])
    /\ UNCHANGED <<config_, now, steps, issued, calls>>

\* the ids of the items at the given positions
CandidateIds(tier, order) == [i \in DOMAIN order |-> tier[order[i]].source_doc_id]

\* maintenance(), apply_decay() lines 433-444: entry, the flag check and
\* the decay of the hot tier under hot_mutex_
MaintenanceBegin(t) ==
    /\ threads[t].pc = "idle"
    /\ calls < MaxCalls
    /\ calls' = calls + 1
    /\ IF ~config_.enable_temporal_decay /\ ~config_.enable_usage_decay
       THEN /\ Goto(t, [pc |-> "promotion_scan"])
            /\ SetMem(Mem)
       ELSE /\ hot_mutex_ = "free"
            /\ SetMem([Mem EXCEPT !.hot_tier_ = DecayTier(@, config_, now)])
            /\ Goto(t, [pc |-> "decay_warm"])
    /\ UNCHANGED <<config_, now, steps, hot_mutex_, issued, admitted>>

\* apply_decay(), lines 447-453: the warm tier under warm_mutex_
DecayWarm(t) ==
    /\ threads[t].pc = "decay_warm"
    /\ SetMem([Mem EXCEPT !.warm_tier_ = DecayTier(@, config_, now)])
    /\ Goto(t, [pc |-> "promotion_scan"])
    /\ UNCHANGED <<config_, now, steps, hot_mutex_, issued, admitted, calls>>

\* check_promotions(), lines 458-470: the candidates are read from warm
\* under the shared warm_mutex_ and sorted
PromotionScan(t) ==
    /\ threads[t].pc = "promotion_scan"
    /\ \E order \in SortedOrders(PromotionScores(Mem, now)) :
          Goto(t, [pc |-> "promotion_size", candidates |-> CandidateIds(warm_tier_, order)])
    /\ SetMem(Mem)
    /\ UNCHANGED <<config_, now, steps, hot_mutex_, issued, admitted, calls>>

\* where the promotion loop of lines 477-479 goes after candidate i
AfterPromote(t, i) ==
    IF i < threads[t].n
    THEN Goto(t, [pc |-> "promote_remove", candidates |-> threads[t].candidates,
                  i |-> i + 1, n |-> threads[t].n])
    ELSE Goto(t, [pc |-> "demotion_scan"])

\* check_promotions(), lines 473-475: hot_size() under the shared
\* hot_mutex_, and the number of candidates to promote
PromotionSize(t) ==
    /\ threads[t].pc = "promotion_size"
    /\ hot_mutex_ = "free"
    /\ LET n == num_to_promote(config_, hot_size(Mem), Len(threads[t].candidates))
       IN IF n >= 1
          THEN Goto(t, [pc |-> "promote_remove", candidates |-> threads[t].candidates,
                        i |-> 1, n |-> n])
          ELSE Goto(t, [pc |-> "demotion_scan"])
    /\ SetMem(Mem)
    /\ UNCHANGED <<config_, now, steps, hot_mutex_, issued, admitted, calls>>

\* promote(), lines 374-385: lookup and removal from warm under warm_mutex_
PromoteRemoveStep(t) ==
    /\ threads[t].pc = "promote_remove"
    /\ LET item_id == threads[t].candidates[threads[t].i]
       IN IF InWarm(Mem, item_id)
          THEN /\ SetMem(PromoteRemove(Mem, item_id))
               /\ Goto(t, [pc |-> "promote_insert", candidates |-> threads[t].candidates,
                           i |-> threads[t].i, n |-> threads[t].n,
                           item |-> warm_tier_[warm_index_[item_id]]])
          ELSE /\ SetMem(Mem)
               /\ AfterPromote(t, threads[t].i)
    /\ UNCHANGED <<config_, now, steps, hot_mutex_, issued, admitted, calls>>

\* promote(), lines 388-393: insertion into hot under hot_mutex_
PromoteInsertStep(t) ==
    /\ threads[t].pc = "promote_insert"
    /\ hot_mutex_ = "free"
    /\ SetMem(PromoteInsert(Mem, threads[t].item))
    /\ AfterPromote(t, threads[t].i)
    /\ UNCHANGED <<config_, now, steps, hot_mutex_, issued, admitted, calls>>

\* check_demotions(), lines 484-496: the candidates are read from hot under
\* the shared hot_mutex_ and sorted
DemotionScan(t) ==
    /\ threads[t].pc = "demotion_scan"
    /\ hot_mutex_ = "free"
    /\ \E order \in SortedOrders(DemotionScores(Mem, config_, now)) :
          Goto(t, [pc |-> "demotion_size", candidates |-> CandidateIds(hot_tier_, order)])
    /\ SetMem(Mem)
    /\ UNCHANGED <<config_, now, steps, hot_mutex_, issued, admitted, calls>>

\* where the demotion loop of lines 503-505 goes after candidate i;
\* after the last one maintenance() returns
AfterDemote(t, i) ==
    IF i < threads[t].n
    THEN Goto(t, [pc |-> "demote_remove", candidates |-> threads[t].candidates,
                  i |-> i + 1, n |-> threads[t].n])
    ELSE Return(t, [op |-> "maintenance"])

\* check_demotions(), lines 499-502: hot_size() under the shared
\* hot_mutex_, and the number of candidates to demote
DemotionSize(t) ==
    /\ threads[t].pc = "demotion_size"
    /\ hot_mutex_ = "free"
    /\ LET n == num_to_demote(config_, hot_size(Mem), Len(threads[t].candidates))
       IN IF n >= 1
          THEN Goto(t, [pc |-> "demote_remove", candidates |-> threads[t].candidates,
                        i |-> 1, n |-> n])
          ELSE Return(t, [op |-> "maintenance"])
    /\ SetMem(Mem)
    /\ UNCHANGED <<config_, now, steps, hot_mutex_, issued, admitted, calls>>

\* demote(), lines 402-413: lookup and removal from hot under hot_mutex_
DemoteRemoveStep(t) ==
    /\ threads[t].pc = "demote_remove"
    /\ hot_mutex_ = "free"
    /\ LET item_id == threads[t].candidates[threads[t].i]
       IN IF InHot(Mem, item_id)
          THEN /\ SetMem(DemoteRemove(Mem, item_id))
               /\ Goto(t, [pc |-> "demote_insert", candidates |-> threads[t].candidates,
                           i |-> threads[t].i, n |-> threads[t].n,
                           item |-> hot_tier_[hot_index_[item_id]]])
          ELSE /\ SetMem(Mem)
               /\ AfterDemote(t, threads[t].i)
    /\ UNCHANGED <<config_, now, steps, hot_mutex_, issued, admitted, calls>>

\* demote(), lines 416-421: insertion into warm under warm_mutex_
DemoteInsertStep(t) ==
    /\ threads[t].pc = "demote_insert"
    /\ SetMem(DemoteInsert(Mem, threads[t].item))
    /\ AfterDemote(t, threads[t].i)
    /\ UNCHANGED <<config_, now, steps, hot_mutex_, issued, admitted, calls>>

\* retrieve(), lines 294-320: entry with valid arguments and the hot search
\* under the shared hot_mutex_
RetrieveHot(t) ==
    /\ threads[t].pc = "idle"
    /\ calls < MaxCalls
    /\ calls' = calls + 1
    /\ hot_mutex_ = "free"
    /\ \E args \in ThreadRetrieveArgs :
          \E hot_order \in HotOrders(Mem, args[1], args[2]) :
             Goto(t, [pc |-> "retrieve_warm", query |-> args[1], k |-> args[2],
                      hot_part |-> HotPart(Mem, args[1], now, hot_order)])
    /\ SetMem(Mem)
    /\ UNCHANGED <<config_, now, steps, hot_mutex_, issued, admitted>>

\* retrieve(), lines 323-343: the warm search under the shared warm_mutex_
\* when the hot search fell short, then the provenance weighting
RetrieveWarm(t) ==
    /\ threads[t].pc = "retrieve_warm"
    /\ LET query == threads[t].query
           k == threads[t].k
           hot_part == threads[t].hot_part
       IN \E warm_order \in WarmOrders(Mem, query, k, Len(hot_part.items)) :
             Goto(t, [pc |-> "retrieve_stats", query |-> query, k |-> k,
                      result |-> Rerank(hot_part, WarmPart(Mem, query, now, warm_order))])
    /\ SetMem(Mem)
    /\ UNCHANGED <<config_, now, steps, hot_mutex_, issued, admitted, calls>>

\* retrieve(), lines 345-359: the latency is measured, the statistics are
\* updated, the result is returned
RetrieveStats(t) ==
    /\ threads[t].pc = "retrieve_stats"
    /\ \E latency_ms \in Latencies :
          /\ SetMem(RecordQuery(Mem, latency_ms))
          /\ Return(t, [op |-> "retrieve", query |-> threads[t].query, k |-> threads[t].k,
                        ret |-> "ok",
                        result |-> [items |-> threads[t].result.items,
                                    scores |-> threads[t].result.scores,
                                    tiers |-> threads[t].result.tiers,
                                    latency_ms |-> latency_ms]])
    /\ UNCHANGED <<config_, now, steps, hot_mutex_, issued, admitted, calls>>

NextThreads ==
    \/ \E t \in Adders : AddBegin(t)
    \/ \E t \in Adders : AddLockHot(t)
    \/ \E t \in Adders : AddWarm(t)
    \/ \E t \in Adders : AddRelockHot(t)
    \/ \E t \in Adders : AddSignature(t)
    \/ MaintenanceBegin("m")
    \/ DecayWarm("m")
    \/ PromotionScan("m")
    \/ PromotionSize("m")
    \/ PromoteRemoveStep("m")
    \/ PromoteInsertStep("m")
    \/ DemotionScan("m")
    \/ DemotionSize("m")
    \/ DemoteRemoveStep("m")
    \/ DemoteInsertStep("m")
    \/ RetrieveHot("r")
    \/ RetrieveWarm("r")
    \/ RetrieveStats("r")

\* two threads calling add(), one calling maintenance(), one calling
\* retrieve(), interleaved in any way
SpecThreads == Init /\ [][NextThreads]_vars

(***************************************************************************)
(* The locks.  Here a step of a thread is one lock or unlock operation, in  *)
(* the order the source performs them.  What a call does to the tiers       *)
(* between these operations is in the specifications above; which branch a  *)
(* call takes depends on the stored items, and here each branch can be      *)
(* taken in every state, so every lock sequence of the program is included. *)
(* std::shared_mutex: any number of shared holders or one unique holder;    *)
(* std::mutex: one holder.                                                  *)
(***************************************************************************)
\* the most promote() (demote()) calls of one check_promotions()
\* (check_demotions()) that are followed
MaxMoves == 1

\* hot_mutex_, warm_mutex_, cold_mutex_ (std::shared_mutex)
TierLocks == {"hot_mutex_", "warm_mutex_", "cold_mutex_"}

\* with dedup_mutex_ and stats_mutex_ (std::mutex)
Locks == TierLocks \cup {"dedup_mutex_", "stats_mutex_"}

\* std::unique_lock / std::lock_guard construction or lock(): mode "unique";
\* std::shared_lock construction: mode "shared"
Lock(l, mode) == [e |-> "lock", l |-> l, mode |-> mode]

\* unlock(), or the lock object going out of scope
Unlock(l, mode) == [e |-> "unlock", l |-> l, mode |-> mode]

\* add(): invalid item; duplicate; push without eviction; push after an
\* eviction (hot released, warm taken and released, hot taken again)
AddLocks ==
    LET check == <<Lock("dedup_mutex_", "unique"), Unlock("dedup_mutex_", "unique")>>
        push == <<Lock("dedup_mutex_", "unique"), Unlock("dedup_mutex_", "unique"),
                  Unlock("hot_mutex_", "unique")>>
    IN { <<>>,
         check,
         check \o <<Lock("hot_mutex_", "unique")>> \o push,
         check \o <<Lock("hot_mutex_", "unique"), Unlock("hot_mutex_", "unique"),
                    Lock("warm_mutex_", "unique"), Unlock("warm_mutex_", "unique"),
                    Lock("hot_mutex_", "unique")>> \o push }

\* retrieve(): invalid arguments; enough results from hot; backfill from warm
RetrieveLocks ==
    LET hot == <<Lock("hot_mutex_", "shared"), Unlock("hot_mutex_", "shared")>>
        warm == <<Lock("warm_mutex_", "shared"), Unlock("warm_mutex_", "shared")>>
        stats == <<Lock("stats_mutex_", "unique"), Unlock("stats_mutex_", "unique")>>
    IN { <<>>, hot \o stats, hot \o warm \o stats }

\* promote(): another tier pair; id not in warm; id found and moved
PromoteLocks_Nested ==
    { <<>>,
      <<Lock("warm_mutex_", "unique"), Unlock("warm_mutex_", "unique")>>,
      <<Lock("warm_mutex_", "unique"), Lock("hot_mutex_", "unique"),
        Unlock("hot_mutex_", "unique"), Unlock("warm_mutex_", "unique")>> }

PromoteLocks ==
    { <<>>,
      <<Lock("warm_mutex_", "unique"), Unlock("warm_mutex_", "unique")>>,
      <<Lock("warm_mutex_", "unique"), Unlock("warm_mutex_", "unique"),
        Lock("hot_mutex_", "unique"), Unlock("hot_mutex_", "unique")>> }

\* demote(): another tier pair; id not in hot; id found and moved
DemoteLocks ==
    { <<>>,
      <<Lock("hot_mutex_", "unique"), Unlock("hot_mutex_", "unique")>>,
      <<Lock("hot_mutex_", "unique"), Unlock("hot_mutex_", "unique"),
        Lock("warm_mutex_", "unique"), Unlock("warm_mutex_", "unique")>> }

\* apply_decay(): both decays disabled; hot, then warm
ApplyDecayLocks ==
    { <<>>,
      <<Lock("hot_mutex_", "unique"), Unlock("hot_mutex_", "unique"),
        Lock("warm_mutex_", "unique"), Unlock("warm_mutex_", "unique")>> }

\* check_promotions() up to its loop: the scan of warm, then hot_size()
PromotionScanLocks ==
    { <<Lock("warm_mutex_", "shared"), Unlock("warm_mutex_", "shared"),
        Lock("hot_mutex_", "shared"), Unlock("hot_mutex_", "shared")>> }

\* check_demotions() up to its loop: the scan of hot, then hot_size()
DemotionScanLocks ==
    { <<Lock("hot_mutex_", "shared"), Unlock("hot_mutex_", "shared"),
        Lock("hot_mutex_", "shared"), Unlock("hot_mutex_", "shared")>> }

\* clear(): the four locks are taken one after the other and released in
\* the reverse order when the function returns
ClearLocks_DedupFirst ==
    { <<Lock("dedup_mutex_", "unique"), Lock("hot_mutex_", "unique"),
        Lock("warm_mutex_", "unique"), Lock("cold_mutex_", "unique"),
        Unlock("cold_mutex_", "unique"), Unlock("warm_mutex_", "unique"),
        Unlock("hot_mutex_", "unique"), Unlock("dedup_mutex_", "unique")>> }

ClearLocks ==
    { <<Lock("hot_mutex_", "unique"), Lock("warm_mutex_", "unique"),
        Lock("cold_mutex_", "unique"), Lock("dedup_mutex_", "unique"),
        Unlock("dedup_mutex_", "unique"), Unlock("cold_mutex_", "unique"),
        Unlock("warm_mutex_", "unique"), Unlock("hot_mutex_", "unique")>> }

\* hot_size(), warm_size(), cold_size()
SizeLocks(l) == { <<Lock(l, "shared"), Unlock(l, "shared")>> }

\* get_stats(): no lock
GetStatsLocks == { <<>> }

\* the same sequences with what is done to the tier between a lock and
\* its unlock: "write" when the tier's vector, an item in it or its index
\* is written there, "read" when they are only read
Access(kind, l) == [e |-> kind, l |-> l, mode |-> "none"]

\* a critical section on one tier
Section(l, mode, kind) == <<Lock(l, mode), Access(kind, l), Unlock(l, mode)>>

\* add(): lines 251-280; evict_from_hot() erases under the first hot lock
AddAccesses ==
    LET check == <<Lock("dedup_mutex_", "unique"), Unlock("dedup_mutex_", "unique")>>
        push == <<Access("write", "hot_mutex_"),
                  Lock("dedup_mutex_", "unique"), Unlock("dedup_mutex_", "unique"),
                  Unlock("hot_mutex_", "unique")>>
    IN { <<>>,
         check,
         check \o <<Lock("hot_mutex_", "unique")>> \o push,
         check \o Section("hot_mutex_", "unique", "write")
               \o Section("warm_mutex_", "unique", "write")
               \o <<Lock("hot_mutex_", "unique")>> \o push }

\* variant: record_access() is applied to the stored item
RetrieveAccesses_Stored ==
    LET stats == <<Lock("stats_mutex_", "unique"), Unlock("stats_mutex_", "unique")>>
    IN { <<>>,
         Section("hot_mutex_", "shared", "write") \o stats,
         Section("hot_mutex_", "shared", "write")
            \o Section("warm_mutex_", "shared", "write") \o stats }

\* retrieve(): lines 306-338; the searches read the tier, record_access()
\* is applied to a copy of the stored item
RetrieveAccesses ==
    LET stats == <<Lock("stats_mutex_", "unique"), Unlock("stats_mutex_", "unique")>>
    IN { <<>>,
         Section("hot_mutex_", "shared", "read") \o stats,
         Section("hot_mutex_", "shared", "read")
            \o Section("warm_mutex_", "shared", "read") \o stats }

\* promote(): lines 374-394
PromoteAccesses ==
    { <<>>,
      Section("warm_mutex_", "unique", "read"),
      Section("warm_mutex_", "unique", "write") \o Section("hot_mutex_", "unique", "write") }

\* demote(): lines 402-422
DemoteAccesses ==
    { <<>>,
      Section("hot_mutex_", "unique", "read"),
      Section("hot_mutex_", "unique", "write") \o Section("warm_mutex_", "unique", "write") }

\* apply_decay(): lines 438-453
ApplyDecayAccesses ==
    { <<>>,
      Section("hot_mutex_", "unique", "write") \o Section("warm_mutex_", "unique", "write") }

\* check_promotions(): lines 460-474
PromotionScanAccesses ==
    { Section("warm_mutex_", "shared", "read") \o Section("hot_mutex_", "shared", "read") }

\* check_demotions(): lines 486-499
DemotionScanAccesses ==
    { Section("hot_mutex_", "shared", "read") \o Section("hot_mutex_", "shared", "read") }

\* clear(): lines 520-533
ClearAccesses ==
    { <<Lock("hot_mutex_", "unique"), Lock("warm_mutex_", "unique"),
        Lock("cold_mutex_", "unique"), Lock("dedup_mutex_", "unique"),
        Access("write", "hot_mutex_"), Access("write", "warm_mutex_"),
        Access("write", "cold_mutex_"),
        Unlock("dedup_mutex_", "unique"), Unlock("cold_mutex_", "unique"),
        Unlock("warm_mutex_", "unique"), Unlock("hot_mutex_", "unique")>> }

\* hot_size(), warm_size(), cold_size()
SizeAccesses(l) == { Section(l, "shared", "read") }

\* retrieve(), lines 294-360, with its access to the averages
\* avg_hot_latency_ms and avg_warm_latency_ms of stats_ (line 354), which
\* are named here by the mutex meant to guard them
RetrieveLatency ==
    LET hot == <<Lock("hot_mutex_", "shared"), Unlock("hot_mutex_", "shared")>>
        warm == <<Lock("warm_mutex_", "shared"), Unlock("warm_mutex_", "shared")>>
        stats == Section("stats_mutex_", "unique", "write")
    IN { <<>>, hot \o stats, hot \o warm \o stats }

\* get_stats(), lines 514-517: Stats(const Stats&) reads the averages
GetStatsLatency == { <<Access("read", "stats_mutex_")>> }

\* clear(), lines 519-534: stats_ = Stats{} writes the averages
ClearLatency ==
    { <<Lock("hot_mutex_", "unique"), Lock("warm_mutex_", "unique"),
        Lock("cold_mutex_", "unique"), Lock("dedup_mutex_", "unique"),
        Access("write", "stats_mutex_"),
        Unlock("dedup_mutex_", "unique"), Unlock("cold_mutex_", "unique"),
        Unlock("warm_mutex_", "unique"), Unlock("hot_mutex_", "unique")>> }

\* the lock sequences of one part of a call; the parts named "..._rw" are
\* the same parts with the accesses to the tiers
PartLocks(part) ==
    CASE part = "add" -> AddLocks
      [] part = "retrieve" -> RetrieveLocks
      [] part = "promote" -> PromoteLocks
      [] part = "demote" -> DemoteLocks
      [] part = "apply_decay" -> ApplyDecayLocks
      [] part = "promotion_scan" -> PromotionScanLocks
      [] part = "demotion_scan" -> DemotionScanLocks
      [] part = "clear" -> ClearLocks
      [] part = "hot_size" -> SizeLocks("hot_mutex_")
      [] part = "warm_size" -> SizeLocks("warm_mutex_")
      [] part = "cold_size" -> SizeLocks("cold_mutex_")
      [] part = "get_stats" -> GetStatsLocks
      [] part = "add_rw" -> AddAccesses
      [] part = "retrieve_rw" -> RetrieveAccesses
      [] part = "promote_rw" -> PromoteAccesses
      [] part = "demote_rw" -> DemoteAccesses
      [] part = "apply_decay_rw" -> ApplyDecayAccesses
      [] part = "promotion_scan_rw" -> PromotionScanAccesses
      [] part = "demotion_scan_rw" -> DemotionScanAccesses
      [] part = "clear_rw" -> ClearAccesses
      [] part = "hot_size_rw" -> SizeAccesses("hot_mutex_")
      [] part = "warm_size_rw" -> SizeAccesses("warm_mutex_")
      [] part = "cold_size_rw" -> SizeAccesses("cold_mutex_")
      [] part = "get_stats_rw" -> GetStatsLocks
      [] part = "retrieve_st" -> RetrieveLatency
      [] part = "get_stats_st" -> GetStatsLatency
      [] part = "clear_st" -> ClearLatency

\* n times the same part
RECURSIVE Repeat(_, _)
Repeat(part, n) == IF n = 0 THEN <<>> ELSE <<part>> \o Repeat(part, n - 1)

\* the public operations called by the threads
LockOps == {"add", "retrieve", "promote", "demote", "maintenance", "clear",
            "get_stats", "hot_size", "warm_size", "cold_size", "total_size"}

\* the parts of a call, in order: maintenance() is apply_decay(),
\* check_promotions() and check_demotions(), the loops calling promote() and
\* demote(); total_size() is the three size functions
Parts(op) ==
    CASE op = "maintenance" ->
             <<"apply_decay", "promotion_scan">> \o Repeat("promote", MaxMoves)
                 \o <<"demotion_scan">> \o Repeat("demote", MaxMoves)
      [] op = "total_size" -> <<"hot_size", "warm_size", "cold_size">>
      [] OTHER -> <<op>>

\* the threads that run one lock operation at a time
LockThreads == {"t1", "t2", "m"}

\* the locks thread t holds
HeldBy(t) == IF threads[t].pc = "locking" THEN threads[t].held ELSE {}

\* a lock request is granted when no thread holds the lock, or when the
\* request is shared and so is every holder; a thread that holds the lock
\* itself is not granted it again
Grantable(t, l, mode) ==
    \A u \in Threads : \A h \in HeldBy(u) :
        h[1] = l => (mode = "shared" /\ h[2] = "shared" /\ u # t)

\* the unique holder of hot_mutex_ among the holdings hs, or "free"
HotOwner(hs) ==
    IF \E u \in Threads : <<"hot_mutex_", "unique">> \in hs[u]
    THEN CHOOSE u \in Threads : <<"hot_mutex_", "unique">> \in hs[u]
    ELSE "free"

\* the ways a call goes on through the parts still to do: the lock
\* operations of the first part that has any (its branch is fixed here)
\* with the parts after it, or nothing when no part is left or none locks
RECURSIVE Branches(_)
Branches(todo) ==
    IF todo = <<>>
    THEN { <<<<>>, <<>>>> }
    ELSE UNION { IF rest = <<>> THEN Branches(Tail(todo)) ELSE { <<rest, Tail(todo)>> } :
                 rest \in PartLocks(Head(todo)) }

\* thread t is inside op with the lock operations still to do in the
\* current part, the parts still to do, and the locks it holds; when
\* nothing is left the call returns and the thread is idle again
Locking(t, op, rest, todo, h) ==
    /\ threads' = [threads EXCEPT ![t] =
                      IF rest = <<>>
                      THEN Idle
                      ELSE [pc |-> "locking", op |-> op, rest |-> rest,
                            todo |-> todo, held |-> h]]
    /\ last' = NoReturn
    /\ hot_mutex_' = HotOwner([u \in Threads |-> IF u = t THEN h ELSE HeldBy(u)])
    /\ SetMem(Mem)
    /\ UNCHANGED <<config_, now, steps, issued, admitted>>

\* thread t goes on after a lock operation: with the rest of the part, or
\* with the next part that locks
GoOn(t, rest, h) ==
    IF rest # <<>>
    THEN Locking(t, threads[t].op, rest, threads[t].todo, h)
    ELSE \E b \in Branches(threads[t].todo) : Locking(t, threads[t].op, b[1], b[2], h)

\* a thread calls an operation
LockCall(t) ==
    /\ threads[t].pc = "idle"
    /\ calls < MaxCalls
    /\ calls' = calls + 1
    /\ \E op \in LockOps : \E b \in Branches(Parts(op)) : Locking(t, op, b[1], b[2], {})

\* the thread acquires the lock it asks for
Acquire(t) ==
    /\ threads[t].pc = "locking"
    /\ LET ev == Head(threads[t].rest)
       IN /\ ev.e = "lock"
          /\ Grantable(t, ev.l, ev.mode)
          /\ GoOn(t, Tail(threads[t].rest), threads[t].held \cup {<<ev.l, ev.mode>>})
    /\ UNCHANGED calls

\* the thread releases a lock
Release(t) ==
    /\ threads[t].pc = "locking"
    /\ LET ev == Head(threads[t].rest)
       IN /\ ev.e = "unlock"
          /\ GoOn(t, Tail(threads[t].rest), threads[t].held \ {<<ev.l, ev.mode>>})
    /\ UNCHANGED calls

NextLocks ==
    \/ \E t \in LockThreads : LockCall(t)
    \/ \E t \in LockThreads : Acquire(t)
    \/ \E t \in LockThreads : Release(t)

\* threads calling any mix of the public operations, one lock operation at
\* a time
SpecLocks == Init /\ [][NextLocks]_vars

\* the threads that run one lock operation or tier access at a time
AccessThreads == {"t1", "t2"}

\* the parts of a call with their accesses
AccessParts(op) == [i \in DOMAIN Parts(op) |-> Parts(op)[i] \o "_rw"]

\* a thread calls an operation
AccessCall(t) ==
    /\ threads[t].pc = "idle"
    /\ calls < MaxCalls
    /\ calls' = calls + 1
    /\ \E op \in LockOps : \E b \in Branches(SubSeq(AccessParts(op), 1, Len(Parts(op)))) :
          Locking(t, op, b[1], b[2], {})

\* the thread reads or writes the tier inside its critical section
Touch(t) ==
    /\ threads[t].pc = "locking"
    /\ Head(threads[t].rest).e \in {"read", "write"}
    /\ GoOn(t, Tail(threads[t].rest), threads[t].held)
    /\ UNCHANGED calls

NextAccess ==
    \/ \E t \in AccessThreads : AccessCall(t)
    \/ \E t \in AccessThreads : Acquire(t)
    \/ \E t \in AccessThreads : Release(t)
    \/ \E t \in AccessThreads : Touch(t)

\* two threads calling any mix of the public operations, one lock
\* operation or tier access at a time
SpecAccess == Init /\ [][NextAccess]_vars

\* a thread calls retrieve(), get_stats() or clear()
LatencyCall(t) ==
    /\ threads[t].pc = "idle"
    /\ calls < MaxCalls
    /\ calls' = calls + 1
    /\ \E op \in {"retrieve", "get_stats", "clear"} :
          \E b \in Branches(<<op \o "_st">>) : Locking(t, op, b[1], b[2], {})

NextLatency ==
    \/ \E t \in AccessThreads : LatencyCall(t)
    \/ \E t \in AccessThreads : Acquire(t)
    \/ \E t \in AccessThreads : Release(t)
    \/ \E t \in AccessThreads : Touch(t)

\* two threads calling retrieve(), get_stats() and clear(), one lock
\* operation or access to the averages at a time
SpecLatency == Init /\ [][NextLatency]_vars

\* the longest vector of existing signatures passed to is_duplicate
MaxExisting == 2

\* signatures passed to MinHashDedup: those of two embeddings and the two
\* that share one slot with each
DedupSignatures ==
    LET s == {SignatureOf(<<1, 0>>), SignatureOf(<<0, 1>>)}
    IN {<<a[1], b[2]>> : a \in s, b \in s}

\* the vectors of at most MaxExisting of them
DedupExisting ==
    UNION {[1..n -> DedupSignatures] : n \in 0..MaxExisting}

\* thresholds, in hundredths
DedupThresholds == {50, 51, 95, 100}

\* a call of MinHashDedup::is_duplicate, lines 123-134; similarities holds
\* what jaccard_similarity returned for each existing signature
DedupCall ==
    /\ \E sig \in DedupSignatures : \E existing \in DedupExisting :
       \E threshold \in DedupThresholds :
          last' = [op |-> "dedup_is_duplicate", sig |-> sig, existing |-> existing,
                   threshold |-> threshold,
                   similarities |->
                       [j \in DOMAIN existing |-> jaccard_similarity(sig, existing[j])],
                   ret |-> dedup_is_duplicate(sig, existing, threshold)]
    /\ SetMem(Mem)
    /\ UNCHANGED <<config_, now, steps>>
    /\ UNCHANGED thread_vars

NextDedup == DedupCall

\* calls of MinHashDedup::is_duplicate on any of the signatures, vectors and
\* thresholds above
SpecDedup == Init /\ [][NextDedup]_vars

\* items two threads pass to add(): the same content under two ids, and
\* another one
TwinItems ==
    LET a == CHOOSE i \in ValidInputs : i.embedding = <<1, 0>>
        b == CHOOSE i \in ValidInputs : i.embedding = <<0, 1>>
    IN {a, [a EXCEPT !.source_doc_id = "a2"], b}

\* add(), lines 235-248, called with one of these items: entry, validation
\* and the duplicate check under dedup_mutex_
AddTwinBegin(t) ==
    /\ threads[t].pc = "idle"
    /\ \E item \in TwinItems :
          /\ item.source_doc_id \notin issued
          /\ issued' = issued \cup {item.source_doc_id}
          /\ IF ~validate_item(item)
             THEN /\ Return(t, [op |-> "add", item |-> item, ret |-> FALSE])
                  /\ SetMem(Mem)
             ELSE IF is_duplicate(Mem, config_, item)
             THEN /\ Return(t, [op |-> "add", item |-> item, ret |-> FALSE])
                  /\ SetMem(BlockDuplicate(Mem))
             ELSE /\ Goto(t, [pc |-> "add_lock_hot", item |-> item])
                  /\ SetMem(Mem)
    /\ UNCHANGED <<config_, now, steps, hot_mutex_, admitted, calls>>

NextTwins ==
    \/ \E t \in Adders : AddTwinBegin(t)
    \/ \E t \in Adders : AddLockHot(t)
    \/ \E t \in Adders : AddWarm(t)
    \/ \E t \in Adders : AddRelockHot(t)
    \/ \E t \in Adders : AddSignature(t)

\* two threads calling add(), interleaved in any way
SpecTwins == Init /\ [][NextTwins]_vars

\* every (from_tier, to_tier) pair of tier names
AllTierPairs == {"hot", "warm", "cold"} \X {"hot", "warm", "cold"}

\* a call of promote(item_id, from_tier, to_tier) with any pair of tiers
PromoteAnyCall ==
    /\ steps < MaxSteps
    /\ \E item_id \in ItemIds, p \in AllTierPairs :
          /\ SetMem(promote(Mem, item_id, p[1], p[2]))
          /\ last' = [op |-> "promote", item_id |-> item_id, from_tier |-> p[1],
                      to_tier |-> p[2]]
    /\ steps' = steps + 1
    /\ UNCHANGED <<config_, now>>
    /\ UNCHANGED thread_vars

\* a call of demote(item_id, from_tier, to_tier) with any pair of tiers
DemoteAnyCall ==
    /\ steps < MaxSteps
    /\ \E item_id \in ItemIds, p \in AllTierPairs :
          /\ SetMem(demote(Mem, item_id, p[1], p[2]))
          /\ last' = [op |-> "demote", item_id |-> item_id, from_tier |-> p[1],
                      to_tier |-> p[2]]
    /\ steps' = steps + 1
    /\ UNCHANGED <<config_, now>>
    /\ UNCHANGED thread_vars

NextCold ==
    \/ AddCall
    \/ ConsolidateCall
    \/ PromoteAnyCall
    \/ DemoteAnyCall
    \/ MaintenanceCall
    \/ ClearCall

\* calls that change the tiers, with promote() and demote() called with any
\* tier names
SpecCold == Init /\ [][NextCold]_vars

(***************************************************************************)
(* The statistics.  get_stats() copies stats_ with Stats(const Stats&),     *)
(* which loads one member after the other and takes no lock; the counters   *)
(* are updated by separate fetch_add calls.  Here a step is one such load   *)
(* or one such update.  One thread calls add() and is the only one that     *)
(* touches the tiers, so its writes to the tiers are taken together at the  *)
(* start of its call; its counter updates follow one by one in source       *)
(* order.  Another thread calls get_stats().                                *)
(***************************************************************************)
\* the members of Stats in declaration order, which is the order in which
\* the copy constructor loads them
StatsMembers ==
    <<"hot_count", "warm_count", "cold_count", "total_count", "duplicates_blocked",
      "promotions", "demotions", "total_queries", "avg_hot_latency_ms",
      "avg_warm_latency_ms">>

\* stats_.<counter>.fetch_add(1, std::memory_order_relaxed)
fetch_add(st, counter) == [st EXCEPT ![counter] = @ + 1]

\* the counters add() increments after admitting an item, in source order:
\* lines 271-272 on the eviction path, then lines 289-290
AddCounters(m, config) ==
    (IF NeedsEviction(m, config) THEN <<"warm_count", "demotions">> ELSE <<>>)
        \o <<"hot_count", "total_count">>

\* the threads, with the value stats_ takes added to the instants a running
\* get_stats() call has lived through
Observe(thr, st) ==
    [t \in DOMAIN thr |->
        IF thr[t].pc = "get_stats"
        THEN [thr[t] EXCEPT !.instants = @ \cup {st}]
        ELSE thr[t]]

\* add(), lines 235-280 without the counters: validation, the duplicate
\* check (a duplicate is counted and rejected), eviction and the pushes
StatsAddBegin(t) ==
    /\ threads[t].pc = "idle"
    /\ \E item \in ThreadItems :
          /\ item.source_doc_id \notin issued
          /\ issued' = issued \cup {item.source_doc_id}
          /\ IF ~validate_item(item)
             THEN /\ threads' = threads
                  /\ last' = [op |-> "add", item |-> item, ret |-> FALSE]
                  /\ SetMem(Mem)
             ELSE IF is_duplicate(Mem, config_, item)
             THEN /\ threads' = Observe(threads, BlockDuplicate(Mem).stats_)
                  /\ last' = [op |-> "add", item |-> item, ret |-> FALSE]
                  /\ SetMem(BlockDuplicate(Mem))
             ELSE /\ threads' = [threads EXCEPT ![t] =
                                    [pc |-> "add_count", item |-> item,
                                     pending |-> AddCounters(Mem, config_)]]
                  /\ last' = NoReturn
                  /\ SetMem([add(Mem, config_, item, now).mem EXCEPT !.stats_ = stats_])
    /\ UNCHANGED <<config_, now, steps, hot_mutex_, admitted, calls>>

\* add(): the next fetch_add; after the last one the call returns true
StatsAddCount(t) ==
    /\ threads[t].pc = "add_count"
    /\ LET st == fetch_add(stats_, Head(threads[t].pending))
           rest == Tail(threads[t].pending)
           thr == Observe(threads, st)
       IN /\ stats_' = st
          /\ IF rest = <<>>
             THEN /\ threads' = [thr EXCEPT ![t] = Idle]
                  /\ last' = [op |-> "add", item |-> threads[t].item, ret |-> TRUE]
                  /\ admitted' = admitted \cup {threads[t].item.source_doc_id}
             ELSE /\ threads' = [thr EXCEPT ![t].pending = rest]
                  /\ last' = NoReturn
                  /\ UNCHANGED admitted
    /\ UNCHANGED <<config_, hot_tier_, hot_index_, warm_tier_, warm_index_, cold_tier_,
                   cold_index_, signatures_, now, steps, hot_mutex_, issued, calls>>

\* get_stats() is entered
GetStatsBegin(t) ==
    /\ threads[t].pc = "idle"
    /\ calls < MaxCalls
    /\ calls' = calls + 1
    /\ Goto(t, [pc |-> "get_stats", copy |-> <<>>, instants |-> {stats_}])
    /\ SetMem(Mem)
    /\ UNCHANGED <<config_, now, steps, hot_mutex_, issued, admitted>>

\* the copy as a Stats record
StatsOf(copy) ==
    [name \in {StatsMembers[i] : i \in DOMAIN StatsMembers} |->
        copy[CHOOSE i \in DOMAIN StatsMembers : StatsMembers[i] = name]]

\* Stats(const Stats&): the next member is loaded; after the last one
\* get_stats() returns the copy
GetStatsLoad(t) ==
    /\ threads[t].pc = "get_stats"
    /\ LET copy == Append(threads[t].copy, stats_[StatsMembers[Len(threads[t].copy) + 1]])
       IN IF Len(copy) = Len(StatsMembers)
          THEN Return(t, [op |-> "get_stats", ret |-> StatsOf(copy),
                          instants |-> threads[t].instants])
          ELSE Goto(t, [threads[t] EXCEPT !.copy = copy])
    /\ SetMem(Mem)
    /\ UNCHANGED <<config_, now, steps, hot_mutex_, issued, admitted, calls>>

NextStats ==
    \/ StatsAddBegin("t1")
    \/ StatsAddCount("t1")
    \/ GetStatsBegin("r")
    \/ GetStatsLoad("r")

\* one thread calling add(), one calling get_stats(), interleaved in any way
SpecStats == Init /\ [][NextStats]_vars

(***************************************************************************)
(* Properties                                                               *)
(***************************************************************************)
\* the tiers, indices and signature set are the same after the step
TiersUnchanged ==
    UNCHANGED <<hot_tier_, hot_index_, warm_tier_, warm_index_, cold_tier_,
                cold_index_, signatures_>>

\* the item fields add() rejects
FieldsInvalid(item) ==
    \/ item.embedding = <<>>
    \/ item.importance < 0 \/ item.importance > 100
    \/ item.provenance_score < 0 \/ item.provenance_score > 100
    \/ item.source_doc_id = ""

\* some admitted signature is similar to the item's at or above the threshold
DuplicateOfAdmitted(item) ==
    \E j \in DOMAIN signatures_ :
        LET sig == SignatureOf(item.embedding)
            agree == Cardinality({i \in 1..2 : sig[i] = signatures_[j][i]})
        IN agree * 50 >= config_.similarity_threshold

\* C1: an add() of a valid item that duplicates no admitted content returns
\* true and total_size() grows by exactly one, with or without an eviction
C1_AddAdmits ==
    [][(/\ last'.op = "add"
        /\ ~FieldsInvalid(last'.item)
        /\ ~DuplicateOfAdmitted(last'.item))
       => (/\ last'.ret = TRUE
           /\ total_size(MemNext) = total_size(Mem) + 1)]_vars

\* an add() returned true after evicting an item from a full hot tier
C1_Witness ==
    /\ last.op = "add" /\ last.ret = TRUE
    /\ Len(hot_tier_) = config_.hot_capacity
    /\ hot_tier_[Len(hot_tier_)].source_doc_id = last.item.source_doc_id
    /\ Len(warm_tier_) >= 1 /\ stats_.demotions >= 1 /\ stats_.promotions = 0

\* C2: an add() of a valid item whose signature duplicates an admitted one
\* returns false, adds exactly one to duplicates_blocked and leaves the
\* tiers, the indices, the signature set and every other counter unchanged
C2_DuplicateBlocked ==
    [][(/\ last'.op = "add"
        /\ ~FieldsInvalid(last'.item)
        /\ DuplicateOfAdmitted(last'.item))
       => (/\ last'.ret = FALSE
           /\ stats_' = [stats_ EXCEPT !.duplicates_blocked = @ + 1]
           /\ total_size(MemNext) = total_size(Mem)
           /\ TiersUnchanged)]_vars

\* "d" was rejected as a duplicate of the stored "a", which has another id
\* and embedding but the same signature
C2_Witness ==
    /\ last.op = "add" /\ last.ret = FALSE
    /\ last.item.source_doc_id = "d"
    /\ stats_.duplicates_blocked = 1
    /\ \E i \in DOMAIN hot_tier_ :
          /\ hot_tier_[i].source_doc_id = "a"
          /\ hot_tier_[i].minhash_sig = SignatureOf(last.item.embedding)
          /\ hot_tier_[i].embedding # last.item.embedding

\* C3: when add() is the only operation called, hot_size() never exceeds
\* hot.capacity; once n > hot.capacity items have been admitted, warm holds
\* at least n - hot.capacity of them and total_size() is n
C3_HotBounded ==
    LET n == stats_.total_count
    IN /\ Len(hot_tier_) <= config_.hot_capacity
       /\ total_size(Mem) = n
       /\ n > config_.hot_capacity => Len(warm_tier_) >= n - config_.hot_capacity

\* more items than hot can hold have been admitted
C3_Witness ==
    /\ stats_.total_count > config_.hot_capacity
    /\ Len(hot_tier_) = config_.hot_capacity
    /\ Len(warm_tier_) = stats_.total_count - config_.hot_capacity
    /\ config_.hot_capacity = 2

\* C7: retrieve() with an empty query or with k < 1 signals InvalidArgument
\* and changes neither the tiers nor any statistic
C7_RetrieveRejects ==
    [][(/\ last'.op = "retrieve"
        /\ (last'.query = <<>> \/ last'.k < 1))
       => (/\ last'.ret = "InvalidArgument"
           /\ TiersUnchanged
           /\ UNCHANGED stats_)]_vars

\* retrieve(q, 0) was rejected on a cache that holds items and has answered
\* a query before
C7_Witness ==
    /\ last.op = "retrieve" /\ last.k = 0 /\ last.query # <<>>
    /\ last.ret = "InvalidArgument"
    /\ Len(hot_tier_) > 0
    /\ stats_.total_queries = 1

\* C8: add() of an item with an empty embedding, an importance or
\* provenance_score outside [0,1] or an empty source_doc_id returns false
\* and changes no tier, signature or counter
C8_InvalidRejected ==
    [][(/\ last'.op = "add"
        /\ FieldsInvalid(last'.item))
       => (/\ last'.ret = FALSE
           /\ TiersUnchanged
           /\ UNCHANGED stats_)]_vars

\* an item without source_doc_id was rejected by a cache holding items
C8_Witness ==
    /\ last.op = "add" /\ last.ret = FALSE
    /\ last.item.source_doc_id = ""
    /\ Len(hot_tier_) > 0

\* C9: consolidate(item, importance) below consolidation_threshold changes
\* nothing; at or above it, it does what add() does with the item whose
\* importance is the given one, so the item is admitted iff in addition it
\* is valid and no duplicate
C9_Consolidate ==
    [][last'.op = "consolidate"
       => LET it == [last'.item EXCEPT !.importance = last'.importance]
              reaches_add == last'.importance >= config_.consolidation_threshold
              stored   == /\ total_size(MemNext) = total_size(Mem) + 1
                          /\ hot_tier_'[Len(hot_tier_')].source_doc_id = it.source_doc_id
                          /\ hot_tier_'[Len(hot_tier_')].importance = it.importance
          IN /\ ~reaches_add => (TiersUnchanged /\ UNCHANGED stats_)
             /\ reaches_add => MemNext = add(Mem, config_, it, now).mem
             /\ stored <=> (/\ reaches_add
                            /\ ~FieldsInvalid(it)
                            /\ ~DuplicateOfAdmitted(it))]_vars

\* an item was consolidated with importance equal to the threshold
C9_Witness ==
    /\ last.op = "consolidate"
    /\ last.importance = config_.consolidation_threshold
    /\ Len(hot_tier_) > 0
    /\ hot_tier_[Len(hot_tier_)].importance = last.importance
    /\ hot_tier_[Len(hot_tier_)].source_doc_id = last.item.source_doc_id
    /\ last.item.importance # last.importance

\* C10: promote(id, "warm", "hot") for an id stored in warm while hot has
\* room takes one item from warm, adds one to hot, and the moved item is in
\* hot with tier "hot"
C10_Promote ==
    [][(/\ last'.op = "promote"
        /\ last'.from_tier = "warm" /\ last'.to_tier = "hot"
        /\ \E i \in DOMAIN warm_tier_ : warm_tier_[i].source_doc_id = last'.item_id
        /\ Len(hot_tier_) < config_.hot_capacity)
       => (/\ Len(warm_tier_') = Len(warm_tier_) - 1
           /\ Len(hot_tier_') = Len(hot_tier_) + 1
           /\ \E i \in DOMAIN warm_tier_ :
                 /\ warm_tier_[i].source_doc_id = last'.item_id
                 /\ warm_tier_' = EraseAt(warm_tier_, i)
                 /\ hot_tier_' = Append(hot_tier_, [warm_tier_[i] EXCEPT !.tier = "hot"]))]_vars

\* an item was promoted into a hot tier that had room
C10_Witness ==
    /\ last.op = "promote"
    /\ stats_.promotions = 1
    /\ Len(hot_tier_) <= config_.hot_capacity
    /\ Len(hot_tier_) >= 1
    /\ hot_tier_[Len(hot_tier_)].source_doc_id = last.item_id
    /\ hot_tier_[Len(hot_tier_)].tier = "hot"

\* every call of every thread has returned
AllReturned == \A t \in Threads : threads[t].pc = "idle"

\* the ids stored in some tier
StoredIds ==
    {hot_tier_[i].source_doc_id : i \in DOMAIN hot_tier_}
    \cup {warm_tier_[i].source_doc_id : i \in DOMAIN warm_tier_}
    \cup {cold_tier_[i].source_doc_id : i \in DOMAIN cold_tier_}

\* the items with the given ids are valid and no two of them are duplicates
\* of each other
ValidMutuallyNonDuplicate(ids) ==
    LET its == {i \in ThreadItems : i.source_doc_id \in ids}
    IN /\ \A i \in its : ~FieldsInvalid(i)
       /\ \A i, j \in its :
             i # j => LET agree == Cardinality({h \in 1..2 :
                                       SignatureOf(i.embedding)[h] = SignatureOf(j.embedding)[h]})
                      IN agree * 50 < config_.similarity_threshold

\* C4: threads add pairwise distinct, valid, mutually non-duplicate items
\* while another thread runs maintenance() and another retrieve(); once all
\* calls have returned, total_size() is the number of add() calls that
\* returned true and every admitted item is stored in some tier
C4_NoLostUpdates ==
    (AllReturned /\ ValidMutuallyNonDuplicate(issued))
    => (/\ total_size(Mem) = Cardinality(admitted)
        /\ admitted \subseteq StoredIds)

\* three adds have returned true, interleaved with a maintenance() that
\* promoted an item, and every call has returned
C4_Witness ==
    /\ AllReturned
    /\ Cardinality(admitted) = 3
    /\ stats_.promotions >= 1
    /\ calls >= 1

\* C5: whatever the interleaving of the threads' add() calls, with or
\* without a concurrent maintenance(), hot_size() <= hot.capacity whenever
\* no add() is in progress
C5_HotBoundedConcurrent ==
    (\A t \in Adders : threads[t].pc = "idle")
    => Len(hot_tier_) <= config_.hot_capacity

\* C6: a retrieve(q, k) with non-empty q and k >= 1 returns items, scores
\* and tiers of one common length, which is at most k, also when other
\* threads change the tiers between its hot search and its warm search
C6_RetrieveLengths ==
    (last.op = "retrieve" /\ last.query # <<>> /\ last.k >= 1)
    => (/\ last.ret = "ok"
        /\ Len(last.result.items) = Len(last.result.scores)
        /\ Len(last.result.scores) = Len(last.result.tiers)
        /\ Len(last.result.items) <= last.k)

\* a retrieve(q, 2) found an item in hot, an add() evicted that item to
\* warm, and the warm search found it again
C6_Witness ==
    /\ last.op = "retrieve" /\ last.ret = "ok" /\ last.k = 2
    /\ last.result.tiers = <<"hot", "warm">>
    /\ last.result.items[1].source_doc_id = last.result.items[2].source_doc_id

\* C11: demote(id, "hot", "warm") for an id stored in hot takes one item
\* from hot and adds one to warm, and the moved item is in warm
C11_Demote ==
    [][(/\ last'.op = "demote"
        /\ last'.from_tier = "hot" /\ last'.to_tier = "warm"
        /\ \E i \in DOMAIN hot_tier_ : hot_tier_[i].source_doc_id = last'.item_id)
       => (/\ Len(hot_tier_') = Len(hot_tier_) - 1
           /\ Len(warm_tier_') = Len(warm_tier_) + 1
           /\ \E i \in DOMAIN hot_tier_ :
                 /\ hot_tier_[i].source_doc_id = last'.item_id
                 /\ hot_tier_' = EraseAt(hot_tier_, i)
                 /\ warm_tier_' = Append(warm_tier_, [hot_tier_[i] EXCEPT !.tier = "warm"]))]_vars

\* an item was demoted from hot to the end of warm
C11_Witness ==
    /\ last.op = "demote"
    /\ stats_.demotions = 1
    /\ Len(warm_tier_) = 1
    /\ warm_tier_[1].source_doc_id = last.item_id
    /\ warm_tier_[1].tier = "warm"
    /\ last.item_id \notin DOMAIN hot_index_

\* C12: promote(id, "warm", "hot") with hot_size() >= hot.capacity before
\* the call leaves the item in warm and both sizes unchanged
C12_PromoteAtCapacity ==
    [][(/\ last'.op = "promote"
        /\ last'.from_tier = "warm" /\ last'.to_tier = "hot"
        /\ Len(hot_tier_) >= config_.hot_capacity)
       => (/\ Len(hot_tier_') = Len(hot_tier_)
           /\ Len(warm_tier_') = Len(warm_tier_)
           /\ warm_tier_' = warm_tier_)]_vars

\* the id is stored in the tier
StoredIn(tier, item_id) == \E i \in DOMAIN tier : tier[i].source_doc_id = item_id

\* C13: promote() with an id not stored in warm or a tier pair other than
\* warm -> hot, and demote() with an id not stored in hot or a tier pair
\* other than hot -> warm, change no tier, no index and no counter
C13_MoveNotFound ==
    [][(\/ /\ last'.op = "promote"
           /\ (\/ ~StoredIn(warm_tier_, last'.item_id)
               \/ <<last'.from_tier, last'.to_tier>> # <<"warm", "hot">>)
        \/ /\ last'.op = "demote"
           /\ (\/ ~StoredIn(hot_tier_, last'.item_id)
               \/ <<last'.from_tier, last'.to_tier>> # <<"hot", "warm">>))
       => (TiersUnchanged /\ UNCHANGED stats_)]_vars

\* promote() was called with the pair hot -> warm for an id that is stored
\* in warm, and the item is still there
C13_Witness ==
    /\ last.op = "promote"
    /\ last.from_tier = "hot" /\ last.to_tier = "warm"
    /\ StoredIn(warm_tier_, last.item_id)
    /\ stats_.promotions = 0

\* C14: after clear() all tiers are empty and every statistic is zero,
\* whatever came before
C14_Clear ==
    [][last'.op = "clear"
       => (/\ hot_size(MemNext) = 0 /\ warm_size(MemNext) = 0 /\ cold_size(MemNext) = 0
           /\ total_size(MemNext) = 0
           /\ stats_' = ZeroStats
           /\ \A f \in DOMAIN stats_' : stats_'[f] = 0)]_vars

\* clear() has run on a cache that had admitted items, blocked a duplicate
\* or answered a query: the signature set is empty again too
C14_Witness ==
    /\ last.op = "clear"
    /\ steps >= 3
    /\ stats_ = ZeroStats
    /\ hot_tier_ = <<>> /\ warm_tier_ = <<>> /\ signatures_ = <<>>

\* the items stored in hot or warm
HotWarmItems(m) ==
    {m.hot_tier_[i] : i \in DOMAIN m.hot_tier_} \cup {m.warm_tier_[i] : i \in DOMAIN m.warm_tier_}

C16_UniqueIds ==
    LET stored == hot_tier_ \o warm_tier_ \o cold_tier_
    IN \A i, j \in DOMAIN stored :
          i # j => stored[i].source_doc_id # stored[j].source_doc_id

\* the ids of the items in a tier
IdsOf(tier) == {tier[i].source_doc_id : i \in DOMAIN tier}

\* C17: with pairwise distinct ids, at every instant of every interleaving
\* of add() (with eviction), maintenance() with its promote() and demote()
\* calls, and retrieve(), no id is in two tiers or in two tiers' indices,
\* and no id is twice in a tier
C17_OneTier ==
    /\ IdsOf(hot_tier_) \cap IdsOf(warm_tier_) = {}
    /\ IdsOf(hot_tier_) \cap IdsOf(cold_tier_) = {}
    /\ IdsOf(warm_tier_) \cap IdsOf(cold_tier_) = {}
    /\ DOMAIN hot_index_ \cap DOMAIN warm_index_ = {}
    /\ DOMAIN hot_index_ \cap DOMAIN cold_index_ = {}
    /\ DOMAIN warm_index_ \cap DOMAIN cold_index_ = {}
    /\ Cardinality(IdsOf(hot_tier_)) = Len(hot_tier_)
    /\ Cardinality(IdsOf(warm_tier_)) = Len(warm_tier_)

\* two moves are under way at once: maintenance() has taken an item out of
\* warm and not yet put it into hot, an add() has evicted an item from hot
\* and not yet put it into warm; both items are in no tier
C17_Witness ==
    /\ threads["m"].pc = "promote_insert"
    /\ threads["m"].item.source_doc_id \notin IdsOf(hot_tier_) \cup IdsOf(warm_tier_)
    /\ \E t \in Adders :
          /\ threads[t].pc = "add_warm"
          /\ threads[t].evicted.source_doc_id \notin IdsOf(hot_tier_) \cup IdsOf(warm_tier_)

\* the index has an entry id -> p exactly for the items of the tier, p
\* being the position of the item with that id
IndexConsistent(tier, index) ==
    /\ DOMAIN index = IdsOf(tier)
    /\ \A id \in DOMAIN index :
          /\ index[id] \in DOMAIN tier
          /\ tier[index[id]].source_doc_id = id
    /\ \A p \in DOMAIN tier : index[tier[p].source_doc_id] = p

\* C18: with pairwise distinct ids, whenever a tier's exclusive lock is not
\* held the tier's index is consistent with its item list
C18_IndexConsistent ==
    /\ hot_mutex_ = "free" => IndexConsistent(hot_tier_, hot_index_)
    /\ IndexConsistent(warm_tier_, warm_index_)
    /\ IndexConsistent(cold_tier_, cold_index_)

\* evictions, a promotion and a demotion have happened, both tiers hold
\* items and nobody holds the hot lock
C18_Witness ==
    /\ hot_mutex_ = "free"
    /\ Len(hot_tier_) >= 1 /\ Len(warm_tier_) >= 2
    /\ stats_.promotions >= 1 /\ stats_.demotions >= 2
    /\ warm_index_[warm_tier_[2].source_doc_id] = 2

\* the tier locks thread t holds
TierLocksHeld(t) == {h \in HeldBy(t) : h[1] \in TierLocks}

\* C19 as stated: no thread ever holds two tier locks at the same time.
C19_OneTierLock == \A t \in Threads : Cardinality(TierLocksHeld(t)) <= 1

\* C19, amended: only inside clear() does a thread hold more than one tier
\* lock (there hot_mutex_, then warm_mutex_, then cold_mutex_); in every
\* other operation (add with its eviction path, retrieve, promote, demote,
\* apply_decay, check_promotions, check_demotions, the size functions) the
\* source tier's lock is released before the destination tier's is taken.
C19_OneTierLockOutsideClear ==
    \A t \in Threads :
        /\ Cardinality(TierLocksHeld(t)) > 1 => threads[t].op = "clear"
        /\ (threads[t].pc = "locking" /\ threads[t].op = "clear") =>
              /\ <<"cold_mutex_", "unique">> \in HeldBy(t) =>
                    <<"warm_mutex_", "unique">> \in HeldBy(t)
              /\ <<"warm_mutex_", "unique">> \in HeldBy(t) =>
                    <<"hot_mutex_", "unique">> \in HeldBy(t)

\* a promote() that has released warm_mutex_ and holds hot_mutex_ alone,
\* while another thread's add() holds warm_mutex_ for its evicted item
C19_Witness ==
    \E t, u \in Threads :
        /\ t # u
        /\ threads[t].pc = "locking" /\ threads[t].op = "promote"
        /\ HeldBy(t) = {<<"hot_mutex_", "unique">>}
        /\ threads[u].pc = "locking" /\ threads[u].op = "add"
        /\ HeldBy(u) = {<<"warm_mutex_", "unique">>}

\* thread t asks for a lock it is not granted
Waiting(t) ==
    /\ threads[t].pc = "locking"
    /\ Head(threads[t].rest).e = "lock"
    /\ ~Grantable(t, Head(threads[t].rest).l, Head(threads[t].rest).mode)

\* the threads whose holdings keep the waiting thread t from its lock
Blockers(t) ==
    LET ev == Head(threads[t].rest)
    IN {u \in Threads : \E h \in HeldBy(u) :
            h[1] = ev.l /\ ~(ev.mode = "shared" /\ h[2] = "shared" /\ u # t)}

\* the order in which clear() takes the locks
LockRank(l) ==
    CASE l = "hot_mutex_" -> 1
      [] l = "warm_mutex_" -> 2
      [] l = "cold_mutex_" -> 3
      [] l = "dedup_mutex_" -> 4
      [] l = "stats_mutex_" -> 5

\* C20: for threads running any mix of add, retrieve, promote, demote,
\* maintenance, clear, get_stats and the size functions, no reachable state
\* has a set of threads each waiting for a lock held by a thread of the set
\* (in particular no cycle of waiting threads); and every thread that asks
\* for a lock while holding others asks in the order hot, warm, cold, dedup
\* that clear() follows.
C20_NoDeadlock ==
    /\ \A S \in (SUBSET Threads) \ {{}} :
          ~(\A t \in S : Waiting(t) /\ Blockers(t) \cap S # {})
    /\ \A t \in Threads :
          (threads[t].pc = "locking" /\ Head(threads[t].rest).e = "lock") =>
             \A h \in HeldBy(t) : LockRank(h[1]) < LockRank(Head(threads[t].rest).l)

\* clear() holds the three tier locks and waits for dedup_mutex_, which an
\* add() holds for its duplicate check
C20_Witness ==
    \E t, u \in Threads :
        /\ Waiting(t) /\ threads[t].op = "clear"
        /\ Cardinality(TierLocksHeld(t)) = 3
        /\ u \in Blockers(t) /\ threads[u].op = "add"
        /\ ~Waiting(u)

\* the items stored in hot and warm after the step
HotWarmItemsNext ==
    {hot_tier_'[i] : i \in DOMAIN hot_tier_'} \cup {warm_tier_'[i] : i \in DOMAIN warm_tier_'}

\* C21: every item retrieve() returns is, in its tier, left with the
\* incremented access_count and the refreshed last_access that the returned
\* copy shows (one more than before the call).
C21_AccessCounted ==
    [][(last'.op = "retrieve" /\ last'.ret = "ok") =>
          \A i \in DOMAIN last'.result.items :
             \E s \in HotWarmItemsNext :
                /\ s.source_doc_id = last'.result.items[i].source_doc_id
                /\ s.access_count = last'.result.items[i].access_count
                /\ s.last_access = last'.result.items[i].last_access]_vars

\* C22: the record get_stats() returns equals the value stats_ had at one
\* instant between the entry of the call and its return, whatever other
\* threads do meanwhile.
C22_Snapshot == last.op = "get_stats" => last.ret \in last.instants

\* C23: the warm tier never holds more items than warm.capacity, whatever
\* add() (with its evictions into warm) and demote() calls are made.
C23_WarmBounded == Len(warm_tier_) <= config_.warm_capacity

\* the warm positions whose item is in hot after the step
PromotedPositions ==
    {i \in DOMAIN warm_tier_ :
        \E j \in DOMAIN hot_tier_' : hot_tier_'[j].embedding = warm_tier_[i].embedding}

\* the hot positions whose item is in warm after the step
DemotedPositions ==
    {i \in DOMAIN hot_tier_ :
        \E j \in DOMAIN warm_tier_' : warm_tier_'[j].embedding = hot_tier_[i].embedding}

\* the stored ids are pairwise distinct
UniqueIds ==
    LET stored == hot_tier_ \o warm_tier_ \o cold_tier_
    IN \A i, j \in DOMAIN stored : i # j => stored[i].source_doc_id # stored[j].source_doc_id

\* C24: a maintenance() call is apply_decay, then check_promotions, then
\* check_demotions: the members afterwards are what check_demotions makes
\* of what check_promotions makes of the decayed members, and every stored
\* item ends with its decayed importance; the scores of the pass are those
\* of the decayed items: where the stored ids are distinct, no item left in
\* warm has a higher promotion score, computed after the decay, than a
\* promoted one.
C24_MaintenanceOrder ==
    [][last'.op = "maintenance" =>
          LET decayed == apply_decay(Mem, config_, now)
              before == decayed.hot_tier_ \o decayed.warm_tier_
              after == hot_tier_' \o warm_tier_'
          IN /\ \E p_order \in SortedOrders(PromotionScores(decayed, now)) :
                   LET promoted == check_promotions(decayed, config_, p_order)
                   IN \E d_order \in SortedOrders(DemotionScores(promoted, config_, now)) :
                         MemNext = check_demotions(promoted, config_, d_order)
             /\ \A j \in DOMAIN after : \E i \in DOMAIN before :
                   /\ before[i].embedding = after[j].embedding
                   /\ before[i].importance = after[j].importance
             /\ UniqueIds =>
                   \A i \in PromotedPositions : \A j \in DOMAIN warm_tier_ \ PromotedPositions :
                      compute_promotion_score(decayed.warm_tier_[i], now)
                         >= compute_promotion_score(decayed.warm_tier_[j], now)]_vars

\* the item with the importance it was added with
Undecayed(item) ==
    [item EXCEPT !.importance =
        (CHOOSE x \in ValidInputs : x.embedding = item.embedding).importance]

\* a maintenance() call has promoted one of two warm items, and the one
\* left in warm has lost importance to decay and would have had the higher
\* promotion score with the importances before the decay
C24_Witness ==
    /\ last.op = "maintenance"
    /\ stats_.promotions = 1
    /\ Len(warm_tier_) = 1 /\ Len(hot_tier_) = 1
    /\ warm_tier_[1].importance < Undecayed(warm_tier_[1]).importance
    /\ compute_promotion_score(Undecayed(warm_tier_[1]), now)
          > compute_promotion_score(Undecayed(hot_tier_[1]), now)

\* C25: a constructor call with warm.capacity < hot.capacity, with
\* cold.capacity < warm.capacity or with dedup.num_hashes < 2 fails with
\* InvalidArgument and leaves no object; one with 1 <= hot.capacity <=
\* warm.capacity <= cold.capacity and num_hashes >= 2 succeeds and the
\* object has the configuration and empty tiers.
C25_Construction ==
    [][last'.op = "TieredLTM" =>
          LET c == last'.config
          IN /\ (\/ c.warm_capacity < c.hot_capacity
                 \/ c.cold_capacity < c.warm_capacity
                 \/ c.num_hashes < 2)
                   => last'.ret = "InvalidArgument" /\ config_' = NoObject
             /\ (/\ 1 <= c.hot_capacity
                 /\ c.hot_capacity <= c.warm_capacity
                 /\ c.warm_capacity <= c.cold_capacity
                 /\ c.num_hashes >= 2)
                   => /\ last'.ret = "ok"
                      /\ config_' = c
                      /\ MemNext = EmptyMem]_vars

\* a construction that was refused for cold.capacity < warm.capacity alone
C25_Witness ==
    /\ last.op = "TieredLTM"
    /\ last.ret = "InvalidArgument"
    /\ last.config.cold_capacity < last.config.warm_capacity
    /\ last.config.hot_capacity >= 1
    /\ last.config.hot_capacity <= last.config.warm_capacity
    /\ last.config.num_hashes >= 2
    /\ config_ = NoObject

\* C26: an add() that admits an item while hot is at (or over) capacity
\* removes exactly one item that was in hot, one whose promotion score is
\* minimal there and the first such by position, appends it to warm, and
\* appends the new item to hot; the new item is not the one removed.
C26_EvictLowest ==
    [][(/\ last'.op = "add" /\ last'.ret = TRUE
        /\ Len(hot_tier_) >= config_.hot_capacity) =>
          \E v \in DOMAIN hot_tier_ :
             /\ \A j \in DOMAIN hot_tier_ :
                   compute_promotion_score(hot_tier_[v], now)
                      <= compute_promotion_score(hot_tier_[j], now)
             /\ \A j \in 1..(v - 1) :
                   compute_promotion_score(hot_tier_[j], now)
                      > compute_promotion_score(hot_tier_[v], now)
             /\ Len(hot_tier_') = Len(hot_tier_)
             /\ SubSeq(hot_tier_', 1, Len(hot_tier_) - 1) = EraseAt(hot_tier_, v)
             /\ hot_tier_'[Len(hot_tier_')].source_doc_id = last'.item.source_doc_id
             /\ hot_tier_'[Len(hot_tier_')].embedding = last'.item.embedding
             /\ warm_tier_' = Append(warm_tier_, [hot_tier_[v] EXCEPT !.tier = "warm"])]_vars

\* an add() has just evicted the second of two hot items, the one with the
\* lower promotion score, and the older item is still first in hot
C26_Witness ==
    /\ last.op = "add" /\ last.ret = TRUE
    /\ Len(signatures_) = 3
    /\ Len(hot_tier_) = 2 /\ Len(warm_tier_) = 1
    /\ hot_tier_[1].minhash_sig = signatures_[1]
    /\ warm_tier_[1].minhash_sig = signatures_[2]
    /\ hot_tier_[2].embedding = last.item.embedding
    /\ compute_promotion_score(warm_tier_[1], now)
          < compute_promotion_score(hot_tier_[1], now)

\* C27: check_promotions(), run on its own, moves exactly
\* min(max(hot.capacity - hot_size, 0), warm_size) items from warm to the
\* end of hot, none of the items left in warm has a higher promotion score
\* than a moved one, and a hot tier within its capacity stays within it.
C27_CheckPromotions ==
    [][last'.op = "check_promotions" =>
          LET n == Min(Max(config_.hot_capacity - Len(hot_tier_), 0), Len(warm_tier_))
          IN /\ Cardinality(PromotedPositions) = n
             /\ Len(hot_tier_') = Len(hot_tier_) + n
             /\ Len(warm_tier_') = Len(warm_tier_) - n
             /\ SubSeq(hot_tier_', 1, Len(hot_tier_)) = hot_tier_
             /\ \A i \in PromotedPositions : \A j \in DOMAIN warm_tier_ \ PromotedPositions :
                   compute_promotion_score(warm_tier_[i], now)
                      >= compute_promotion_score(warm_tier_[j], now)
             /\ Len(hot_tier_) <= config_.hot_capacity
                   => Len(hot_tier_') <= config_.hot_capacity]_vars

\* C28: check_demotions(), run on its own with hot_size > hot.capacity,
\* moves exactly hot_size - hot.capacity items from hot to the end of warm,
\* none of the items left in hot has a higher demotion score than a moved
\* one, and hot_size = hot.capacity afterwards; with hot at or under
\* capacity it changes nothing.
C28_CheckDemotions ==
    [][last'.op = "check_demotions" =>
          IF Len(hot_tier_) > config_.hot_capacity
          THEN /\ Cardinality(DemotedPositions) = Len(hot_tier_) - config_.hot_capacity
               /\ Len(hot_tier_') = config_.hot_capacity
               /\ Len(warm_tier_') = Len(warm_tier_) + Cardinality(DemotedPositions)
               /\ SubSeq(warm_tier_', 1, Len(warm_tier_)) = warm_tier_
               /\ \A i \in DemotedPositions : \A j \in DOMAIN hot_tier_ \ DemotedPositions :
                     compute_demotion_score(hot_tier_[i], config_, now)
                        >= compute_demotion_score(hot_tier_[j], config_, now)
          ELSE MemNext = Mem]_vars

\* the number of entries of a retrieve() result that come from the tier
FromTier(result, tier) == Cardinality({i \in DOMAIN result.tiers : result.tiers[i] = tier})

\* C29: a retrieve(q, k) on a cache no other call is changing returns
\* min(k, hot_size) items of hot first, then, only if those are fewer than
\* k, at most k minus that number of warm items: min(k, hot_size +
\* warm_size) items in all, and none from warm when hot_size >= k.
C29_WarmForShortfall ==
    (last.op = "retrieve" /\ last.ret = "ok") =>
       LET result == last.result
           found == Min(last.k, Len(hot_tier_))
       IN /\ Len(result.items) = Min(last.k, Len(hot_tier_) + Len(warm_tier_))
          /\ FromTier(result, "hot") = found
          /\ \A i \in DOMAIN result.tiers : result.tiers[i] = "hot" <=> i <= found
          /\ FromTier(result, "warm") = Min(last.k - found, Len(warm_tier_))
          /\ Len(hot_tier_) >= last.k => FromTier(result, "warm") = 0

\* a retrieve(q, 2) on a cache with one hot and two warm items has
\* returned the hot item and one warm item
C29_Witness ==
    /\ last.op = "retrieve" /\ last.ret = "ok" /\ last.k = 2
    /\ Len(hot_tier_) = 1 /\ Len(warm_tier_) = 2
    /\ last.result.tiers = <<"hot", "warm">>

\* what thread t is about to do to a tier: its next operation, if that is
\* an access
Pending(t) ==
    IF threads[t].pc = "locking" /\ Head(threads[t].rest).e \in {"read", "write"}
    THEN {Head(threads[t].rest)}
    ELSE {}

\* C30: every write to a tier (its vector, a stored item, its index) is
\* made by a thread holding that tier's lock exclusively, every read by a
\* thread holding it shared or exclusively, a thread holding it shared
\* writes nothing to the tier, and no two threads are ever about to access
\* the same tier when one of the accesses is a write.
C30_NoDataRace ==
    /\ \A t \in Threads : \A a \in Pending(t) :
          /\ a.e = "write" => <<a.l, "unique">> \in HeldBy(t)
          /\ a.e = "read" => \E h \in HeldBy(t) : h[1] = a.l
          /\ <<a.l, "shared">> \in HeldBy(t) => a.e = "read"
    /\ \A t, u \in Threads : \A a \in Pending(t) : \A b \in Pending(u) :
          (t # u /\ a.l = b.l) => (a.e = "read" /\ b.e = "read")

\* retrieve() is about to read the hot tier under the shared lock while
\* another thread's apply_decay() waits for the exclusive one
C30_Witness ==
    \E t, u \in Threads :
        /\ threads[t].pc = "locking" /\ threads[t].op = "retrieve"
        /\ Pending(t) = {Access("read", "hot_mutex_")}
        /\ Waiting(u) /\ threads[u].op \in {"maintenance", "add"}
        /\ Head(threads[u].rest) = Lock("hot_mutex_", "unique")

\* C31: the averages avg_hot_latency_ms and avg_warm_latency_ms are
\* accessed only under stats_mutex_ where it matters: no two threads are
\* ever about to access them at the same time when one of the accesses is
\* a write (a thread that writes them holds stats_mutex_, and so does any
\* thread that reads or writes them meanwhile, which excludes both at once).
C31_LatencyGuarded ==
    \A t, u \in Threads : \A a \in Pending(t) : \A b \in Pending(u) :
        (t # u /\ a.l = "stats_mutex_" /\ b.l = "stats_mutex_")
            => (a.e = "read" /\ b.e = "read")

\* the number of slots on which two signatures agree
Agreeing(s1, s2) ==
    (IF s1[1] = s2[1] THEN 1 ELSE 0) + (IF s1[2] = s2[2] THEN 1 ELSE 0)

Untiered(item) == [item EXCEPT !.tier = ""]

\* how many items of hot and warm are x once the tier field is left out
Copies(x, hot, warm) ==
    Cardinality({i \in DOMAIN hot : Untiered(hot[i]) = x})
        + Cardinality({i \in DOMAIN warm : Untiered(warm[i]) = x})

\* the stored items without their tier fields
UntieredItems(hot, warm) ==
    {Untiered(hot[i]) : i \in DOMAIN hot} \cup {Untiered(warm[i]) : i \in DOMAIN warm}

\* C33: every item in hot has tier "hot" and every item in warm has tier
\* "warm"; an add(), consolidate(), promote() or demote() leaves every
\* stored item as it was except for the tier field (embedding, importance,
\* provenance_score, access_count, timestamps, signature), whichever tier
\* it ends in; promote() and demote() store nothing else and add() stores
\* at most the one new item.
C33_MoveKeepsItem ==
    [][ /\ \A i \in DOMAIN hot_tier_' : hot_tier_'[i].tier = "hot"
        /\ \A i \in DOMAIN warm_tier_' : warm_tier_'[i].tier = "warm"
        /\ last'.op \in {"promote", "demote"} =>
              \A x \in UntieredItems(hot_tier_, warm_tier_)
                          \cup UntieredItems(hot_tier_', warm_tier_') :
                  Copies(x, hot_tier_', warm_tier_') = Copies(x, hot_tier_, warm_tier_)
        /\ last'.op \in {"add", "consolidate"} =>
              /\ \A x \in UntieredItems(hot_tier_, warm_tier_) :
                    Copies(x, hot_tier_', warm_tier_') >= Copies(x, hot_tier_, warm_tier_)
              /\ Len(hot_tier_') + Len(warm_tier_') <= Len(hot_tier_) + Len(warm_tier_) + 1
      ]_vars

\* an item that had been accessed before it was added has gone to warm and
\* has been brought back to hot by promote(), with its access count
C33_Witness ==
    /\ last.op = "promote"
    /\ stats_.promotions > 0
    /\ stats_.demotions > 0
    /\ \E i \in DOMAIN hot_tier_ :
          /\ hot_tier_[i].access_count > 0
          /\ hot_tier_[i].source_doc_id = last.item_id

\* C34: of the add() calls made with the same content under different ids,
\* at most one returns true and at most one item of that content is stored.
C34_DedupAtomic ==
    \A e \in {i.embedding : i \in TwinItems} :
        /\ Cardinality({i \in TwinItems :
                           i.embedding = e /\ i.source_doc_id \in admitted}) <= 1
        /\ Cardinality({j \in DOMAIN hot_tier_ : hot_tier_[j].embedding = e})
             + Cardinality({j \in DOMAIN warm_tier_ : warm_tier_[j].embedding = e}) <= 1

\* C35: between calls, the hot_count of get_stats() is hot_size().
C35_HotCount == stats_.hot_count = Len(hot_tier_)

\* C36: between calls, warm_size() is the demotions counter minus the
\* promotions counter.
C36_WarmBalance == Len(warm_tier_) = stats_.demotions - stats_.promotions

\* items have entered warm by eviction or demote() and one has left it by
\* promote(), another is still there
C36_Witness ==
    /\ stats_.promotions > 0
    /\ stats_.demotions > stats_.promotions
    /\ Len(warm_tier_) > 0
    /\ last.op \in {"promote", "maintenance"}

\* C37: the cold tier stays empty whatever is called, so that total_size()
\* is hot_size() + warm_size(), and after a call other than clear() every
\* item stored before is still stored and the items are no fewer.
C37_ColdEmpty ==
    [][ /\ Len(cold_tier_') = 0
        /\ DOMAIN cold_index_' = {}
        /\ total_size(MemNext) = Len(hot_tier_') + Len(warm_tier_')
        /\ last'.op # "clear" =>
              /\ Len(hot_tier_') + Len(warm_tier_') >= Len(hot_tier_) + Len(warm_tier_)
              /\ \A x \in UntieredItems(hot_tier_, warm_tier_) :
                    \E y \in UntieredItems(hot_tier_', warm_tier_') :
                       x.source_doc_id = y.source_doc_id /\ x.embedding = y.embedding
      ]_vars

\* demote() has been called from warm to cold for an item that is in warm,
\* which is full
C37_Witness ==
    /\ last.op = "demote"
    /\ last.from_tier = "warm" /\ last.to_tier = "cold"
    /\ InWarm(Mem, last.item_id)
    /\ Len(warm_tier_) >= config_.warm_capacity

\* the signatures of the items stored in hot and warm
StoredSignatures ==
    {hot_tier_[i].minhash_sig : i \in DOMAIN hot_tier_}
        \cup {warm_tier_[i].minhash_sig : i \in DOMAIN warm_tier_}

\* C38: an add() of valid content whose signature is that of an item
\* admitted earlier returns false, in whichever tier that item is now; the
\* remembered signatures grow by one with every admission, are emptied by
\* clear() and are changed by nothing else; the add() of valid content
\* that follows a clear() returns true.
C38_DedupMemory ==
    [][ /\ (last'.op = "add" /\ validate_item(last'.item)) =>
              /\ (\/ SignatureOf(last'.item.embedding) \in StoredSignatures
                  \/ \E j \in DOMAIN signatures_ :
                        signatures_[j] = SignatureOf(last'.item.embedding))
                    => last'.ret = FALSE
              /\ last.op = "clear" => last'.ret = TRUE
              /\ signatures_' = IF last'.ret
                                THEN Append(signatures_, SignatureOf(last'.item.embedding))
                                ELSE signatures_
        /\ last'.op = "clear" => signatures_' = <<>>
        /\ last'.op \in {"promote", "demote", "maintenance", "retrieve", "get_stats"}
              => signatures_' = signatures_
        /\ StoredSignatures \subseteq {signatures_[j] : j \in DOMAIN signatures_}
      ]_vars

\* content whose original has been evicted to warm has been offered again
\* and refused
C38_Witness ==
    /\ last.op = "add"
    /\ validate_item(last.item)
    /\ last.ret = FALSE
    /\ \E i \in DOMAIN warm_tier_ :
          warm_tier_[i].minhash_sig = SignatureOf(last.item.embedding)
    /\ \A i \in DOMAIN hot_tier_ :
          hot_tier_[i].minhash_sig # SignatureOf(last.item.embedding)

\* C39: a retrieve() that returns a result leaves the items of hot, warm
\* and cold and their order, the indices, the signatures and the counters
\* hot/warm/cold/total count, duplicates_blocked, promotions and demotions
\* as they were; total_queries grows by exactly one, and apart from it only
\* the running average avg_hot_latency_ms may change.
C39_RetrieveFrame ==
    [][(last'.op = "retrieve" /\ last'.ret = "ok") =>
          /\ hot_tier_' = hot_tier_ /\ warm_tier_' = warm_tier_ /\ cold_tier_' = cold_tier_
          /\ hot_index_' = hot_index_ /\ warm_index_' = warm_index_
          /\ cold_index_' = cold_index_
          /\ signatures_' = signatures_
          /\ stats_'.total_queries = stats_.total_queries + 1
          /\ \A c \in DOMAIN stats_ \ {"total_queries", "avg_hot_latency_ms"} :
                stats_'[c] = stats_[c]
      ]_vars

\* a retrieve() has returned items of hot and of warm, and the average
\* latency has changed
C39_Witness ==
    /\ last.op = "retrieve" /\ last.ret = "ok"
    /\ "hot" \in {last.result.tiers[i] : i \in DOMAIN last.result.tiers}
    /\ "warm" \in {last.result.tiers[i] : i \in DOMAIN last.result.tiers}
    /\ stats_.total_queries = 1
    /\ stats_.avg_hot_latency_ms > 0

\* C40: the scores retrieve() returns are in non-increasing order, hot and
\* warm results taken together, after the warm discount and the
\* multiplication by provenance_score.
C40_Ranked ==
    (last.op = "retrieve" /\ last.ret = "ok") =>
        \A i \in 1..(Len(last.result.scores) - 1) :
            last.result.scores[i] >= last.result.scores[i + 1]

====
